---------------------------- MODULE Spec2Model ----------------------------
(***************************************************************************)
(* Model of the keyfile profile writer of NetworkManager (netplan variant) *)
(*   src/core/settings/plugins/keyfile/nms-keyfile-writer.c                *)
(* _internal_write_connection() is modelled statement group by statement   *)
(* group; the position inside the function is the variable pc.  The file   *)
(* system, the netplan YAML store and the outcome of every library call    *)
(* are the environment: a call that can fail is given both outcomes.       *)
(*                                                                         *)
(* The second part models the metadata sidecar ("nmmeta") functions and    *)
(* the permission check of nms-keyfile-utils.c on one directory:           *)
(* nms_keyfile_nmmeta_check_filename, nms_keyfile_nmmeta_read and the two  *)
(* permission functions are operators, nms_keyfile_nmmeta_write is         *)
(* followed system call by system call (variable mpc).                     *)
(*                                                                         *)
(* Further parts, each with its own specification:                         *)
(*   SpecFix   _fix_netplan_interface_name of nms-keyfile-utils.c, file by *)
(*             file of the glob result (variable fpc);                     *)
(*   SpecCert  cert_writer of nms-keyfile-writer.c, one certificate        *)
(*             property per step (variable cpc);                           *)
(*   SpecVpn   the data and secrets tables of nm-setting-vpn.c and the     *)
(*             foreach loop, one callback per step (variable vpc);         *)
(*   SpecVpnSecrets  update_one_secret, get_secret_flags,                  *)
(*             set_secret_flags and clear_secrets of nm-setting-vpn.c,     *)
(*             one call per step;                                          *)
(*   SpecTc    the qdisc and tfilter lists of nm-setting-tc-config.c and   *)
(*             the objects the caller holds.                               *)
(***************************************************************************)
EXTENDS Integers, Sequences, FiniteSets, TLC

\* ------------------------------------------------------------------ bounds
\* number of writer calls in one behaviour of SpecSeq
MaxSeq == 2
\* stands for the 10000 of the candidate loop "for (i_path = -2; i_path < 10000; ...)"
MaxIPath == 2

\* ------------------------------------------------------------------ paths
\* A path is a record: directory, shape of the file name, and the parts the
\* file name is printed from.
\*   kind "id"      <dir>/<escape(id)>
\*   kind "iduuid"  <dir>/<escape(id-uuid)>        (n = 0)
\*                  <dir>/<escape(id-uuid-n)>      (n > 0)
\*   kind "netplan" <dir>/netplan-<netdef id>[-<ssid>].nmconnection,
\*                  the netdef id being NM-<uuid> (id = "NM") or an
\*                  interface name (uuid = 0)
MkPath(d, k, i, u, n, s) ==
    [dir |-> d, kind |-> k, id |-> i, uuid |-> u, n |-> n, ssid |-> s]

\* the NULL path
NoPath == MkPath("", "null", "", 0, 0, "")

\* what *out_path holds before the writer assigns it
UnsetPath == MkPath("", "unset", "", 0, 0, "")

\* what *out_reread holds before the writer assigns it
UnsetReread == -1

\* a netplan definition id: NM-<uuid> or an interface name
NetdefNM(u) == [id |-> "NM", uuid |-> u]
NetdefIf(name) == [id |-> name, uuid |-> 0]
NoNetdef == [id |-> "", uuid |-> 0]

\* "%s/run/NetworkManager/system-connections/netplan-%s[-%s].nmconnection"
RunPath(nd, s) == MkPath("run", "netplan", nd.id, nd.uuid, 0, s)

\* ------------------------------------------------------------------ profiles
\* The connection profiles handed to the writer.  They share the id "a".
Profiles ==
    { [uuid |-> 1, id |-> "a", ifname |-> "eth0", ssid |-> ""],
      [uuid |-> 2, id |-> "a", ifname |-> "eth0", ssid |-> ""],
      [uuid |-> 3, id |-> "a", ifname |-> "",     ssid |-> "s"],
      [uuid |-> 4, id |-> "a", ifname |-> "wlan0", ssid |-> "s"] }

NoProfile == [uuid |-> 0, id |-> "", ifname |-> "", ssid |-> ""]

\* content of a file: which profile it stores and which call wrote it (0: it
\* was there before the first call)
Content(u, w) == [uuid |-> u, by |-> w]

VARIABLES
    fs,                 \* the file system: existing path -> content
    yaml,               \* the netplan YAML store: netdef id -> [ssid, data]
    keyfile_dir,        \* argument keyfile_dir ("etc" or "run")
    nwrites,            \* number of calls started
    pc,                 \* position inside _internal_write_connection
    args,               \* the other arguments of the call
    path,               \* local: path
    selected,           \* the value of path when the candidate loop ended
    netplan_id,         \* local: netplan_id (NoNetdef: NULL)
    ifname,             \* local: ifname ("": NULL)
    kf_path,            \* local: kf_path
    netdef,             \* the definitions held by np_state
    actual_netplan_id,  \* local: actual_netplan_id
    reread,             \* local: reread (0: NULL, else uuid of the profile)
    reread_same,        \* local: reread_same
    ret,                \* return value: "none", "TRUE", "FALSE"
    error,              \* *error: "" or the message set with g_set_error
    out_path,           \* *out_path  (UnsetPath or a path)
    out_reread,         \* *out_reread (UnsetReread or a profile uuid)
    out_reread_same,    \* *out_reread_same ("unset", "TRUE" or "FALSE")
    trace,              \* the library / system calls made by this call
    failed,             \* the projection steps of this call that failed
    hist                \* SpecSeq: the results of the calls that returned TRUE

\* the metadata sidecar ("nmmeta") codec and the permission check of
\* nms-keyfile-utils.c
VARIABLES
    testing,            \* NM_UTILS_TEST_NO_KEYFILE_OWNER_CHECK is set
    mdir,               \* the files of dirname: file name -> file
    mpc,                \* position inside the sidecar / permission functions
    margs,              \* the arguments of the call
    mprev,              \* what was at the final name when the write was called
    mret,               \* return value of nms_keyfile_nmmeta_write
    mout,               \* *out_full_filename
    mres,               \* result of nms_keyfile_nmmeta_read / the permission check
    mtrace              \* the system calls made by this call

\* the interface-name fixup pass _fix_netplan_interface_name of
\* nms-keyfile-utils.c
VARIABLES
    rundir,             \* the files of <rootdir>/run/NetworkManager/system-connections
    umask,              \* the umask of the process
    npass,              \* number of passes started
    fpc,                \* position inside _fix_netplan_interface_name
    gl,                 \* gl.gl_pathv: the file names found by glob()
    fi,                 \* the loop index i (counted from 1)
    orig_umask,         \* local: orig_umask
    fret,               \* return value: "none", "TRUE", "FALSE"
    fsaved,             \* the files this pass has rewritten
    fbefore,            \* rundir and umask when the pass was called
    fhist               \* the passes that returned

\* the certificate handler cert_writer of nms-keyfile-writer.c, called by
\* the serializer for the certificate fields of the 802.1x setting
VARIABLES
    csetting,           \* the 802.1x setting: certificate field -> value
    cfiles,             \* the files of keyfile_dir: file name -> bytes
    ckf,                \* the GKeyFile being filled: key -> string
    cerror,             \* *error of the serializer ("" while unset)
    clog,               \* the fields a warning was logged for
    ctodo,              \* the certificate fields still to be written
    cpc,                \* position inside the serializer
    cret                \* what the serializer returned: "none", "keyfile", "NULL"

\* the VPN setting of libnm-core-impl/nm-setting-vpn.c
VARIABLES
    vdata,              \* priv->data: key -> value
    vsecrets,           \* priv->secrets: key -> value
    vpc,                \* "idle", "iter" (inside foreach_item_helper), "done"
    vtable,             \* the table foreach_item_helper iterates: "data", "secrets"
    vkeys,              \* local: keys
    vstart,             \* the table when the iteration started
    vi,                 \* local: i (counted from 1)
    vvisits,            \* the calls of func made by this iteration
    vop                 \* the last call of the API and what the setting was before

\* the traffic-control setting of nm-setting-tc-config.c and the objects of
\* its caller
VARIABLES
    tside,              \* the list this behaviour works on: "qdisc" or "tfilter"
    tqdiscs,            \* self->qdiscs: the NMTCQdisc objects of the setting
    ttfilters,          \* self->tfilters: the NMTCTfilter objects of the setting
    tactions,           \* the NMTCAction objects: identity -> object
    cq,                 \* the NMTCQdisc object of the caller
    cf,                 \* the NMTCTfilter object of the caller
    tlast               \* the last call on the setting and the list before it

meta   == <<testing, mdir, mpc, margs, mprev, mret, mout, mres, mtrace>>
cert   == <<csetting, cfiles, ckf, cerror, clog, ctodo, cpc, cret>>
vpn    == <<vdata, vsecrets, vpc, vtable, vkeys, vstart, vi, vvisits, vop>>
tc     == <<tside, tqdiscs, ttfilters, tactions, cq, cf, tlast>>
fix    == <<rundir, umask, npass, fpc, gl, fi, orig_umask, fret, fsaved, fbefore, fhist>>

env    == <<fs, yaml>>
locals == <<path, selected, netplan_id, ifname, kf_path, netdef, actual_netplan_id,
            reread, reread_same>>
outs   == <<out_path, out_reread, out_reread_same>>
writer == <<fs, yaml, keyfile_dir, nwrites, pc, args, path, selected, netplan_id, ifname,
            kf_path, netdef, actual_netplan_id, reread, reread_same, ret,
            error, out_path, out_reread, out_reread_same, trace, failed, hist>>
\* the components beside the writer and the sidecar functions
others == <<fix, cert, vpn, tc>>
\* everything but the fixup pass
exceptFix == <<writer, meta, cert, vpn, tc>>
\* everything but the certificate handler
exceptCert == <<writer, meta, fix, vpn, tc>>
\* everything but the VPN setting
exceptVpn == <<writer, meta, fix, cert, tc>>
\* everything but the traffic-control setting
exceptTc == <<writer, meta, fix, cert, vpn>>
vars   == <<writer, meta, others>>

\* a NULL string
NoStr == "<NULL>"

\* a NULL file name
NoName == <<>>

\* a file path of the sidecar model: directory and base name; a relative
\* path has the directory ""
LPath(d, b) == [dir |-> d, base |-> b]

\* the NULL path
NoLPath == LPath("", <<>>)

\* no file: what lstat() fails on
NoFile == [type |-> "none", uid |-> 0, mode |-> 0, kf |-> FALSE, uuid |-> <<>>,
           loaded_path |-> NoLPath, shadowed_storage |-> NoStr]

\* no sidecar call is running
MetaIdle ==
    /\ mpc = "idle"
    /\ margs = [op |-> "none"]
    /\ mprev = NoFile
    /\ mret = 0
    /\ mout = NoName
    /\ mres = [op |-> "none"]
    /\ mtrace = <<>>

\* what orig_umask holds before the pass assigns it
UnsetUmask == -1

\* what fbefore holds while no pass is running
NoSnapshot == [dir |-> <<>>, umask |-> UnsetUmask]

\* no fixup pass is running
FixIdle ==
    /\ fpc = "idle"
    /\ gl = <<>>
    /\ fi = 0
    /\ orig_umask = UnsetUmask
    /\ fret = "none"
    /\ fsaved = {}
    /\ fbefore = NoSnapshot

\* the fixup pass is not part of the behaviour
FixOff ==
    /\ rundir = <<>>
    /\ umask = 18
    /\ npass = 0
    /\ FixIdle
    /\ fhist = <<>>

\* no serialization is running
CertIdle ==
    /\ ckf = <<>>
    /\ cerror = ""
    /\ clog = {}
    /\ ctodo = <<>>
    /\ cpc = "idle"
    /\ cret = "none"

\* the certificate handler is not part of the behaviour
CertOff ==
    /\ csetting = <<>>
    /\ cfiles = <<>>
    /\ CertIdle

\* no call of the VPN setting has been made
NoOp == [op |-> "none", key |-> "", item |-> "", ret |-> FALSE,
         before |-> <<>>, notified |-> FALSE]

\* no iteration is running
VpnIdle ==
    /\ vpc = "idle"
    /\ vtable = "none"
    /\ vkeys = <<>>
    /\ vstart = <<>>
    /\ vi = 0
    /\ vvisits = <<>>

\* the VPN setting is not part of the behaviour
VpnOff ==
    /\ vdata = <<>>
    /\ vsecrets = <<>>
    /\ VpnIdle
    /\ vop = NoOp

\* an NMTCQdisc: attributes is a function from attribute names to values
Qdisc(k, h, p, a) == [kind |-> k, handle |-> h, parent |-> p, attributes |-> a]

\* an NMTCTfilter: action is the identity of an NMTCAction, 0 for NULL
Tfilter(k, h, p, a) == [kind |-> k, handle |-> h, parent |-> p, action |-> a]

\* an NMTCAction
Action(k, a) == [kind |-> k, attributes |-> a]

\* the caller holds no qdisc / no tfilter; an action that was not created
NoQdisc == Qdisc("", 0, 0, <<>>)
NoTfilter == Tfilter("", 0, 0, 0)
NoAction == Action("", <<>>)

\* no call on the traffic-control setting has been made
NoTcCall == [op |-> "none", ret |-> FALSE, qdiscs |-> <<>>, tfilters |-> <<>>,
             qdisc |-> NoQdisc, tfilter |-> NoTfilter]

\* the traffic-control setting after nm_setting_tc_config_init, the caller
\* holding nothing
TcNew ==
    /\ tqdiscs = <<>>
    /\ ttfilters = <<>>
    /\ tactions = [i \in {1, 2} |-> NoAction]
    /\ cq = NoQdisc
    /\ cf = NoTfilter
    /\ tlast = NoTcCall

\* the traffic-control setting is not part of the behaviour
TcOff == tside = "none" /\ TcNew

\* the components beside the writer and the sidecar functions are not part
\* of the behaviour
OthersOff == FixOff /\ CertOff /\ VpnOff /\ TcOff

\* ------------------------------------------------------------------ helpers
Exists(f, p) == p \in DOMAIN f

\* nm_utils_file_set_contents / g_file_copy: create or replace p
SetContents(f, p, c) == [q \in (DOMAIN f) \cup {p} |-> IF q = p THEN c ELSE f[q]]

\* unlink(p): a missing file is no error
Unlink(f, p) == [q \in (DOMAIN f) \ {p} |-> f[q]]

\* nm_utils_file_is_in_path(p, keyfile_dir)
FileIsInPath(p, d) == p # NoPath /\ p.dir = d

NoArgs == [connection |-> NoProfile, is_volatile |-> FALSE,
           existing_path |-> NoPath, existing_path_read_only |-> FALSE,
           force_rename |-> FALSE, allow_filename_cb |-> FALSE,
           rejected |-> {}, want_path |-> FALSE, want_reread |-> FALSE,
           want_same |-> FALSE]


\* ------------------------------------------------------------------ path selection
\* Rename with the directory test dropped: any existing_path is renamed
RenameWheneverExisting(a, d) ==
    \/ a.force_rename
    \/ a.existing_path_read_only
    \/ a.existing_path # NoPath

\* rename = force_rename || existing_path_read_only
\*          || (existing_path && !nm_utils_file_is_in_path(existing_path, keyfile_dir))
Rename(a, d) ==
    \/ a.force_rename
    \/ a.existing_path_read_only
    \/ (a.existing_path # NoPath /\ ~FileIsInPath(a.existing_path, d))

\* the candidate of loop index i (NoPath: the index has no candidate)
PathCandidate(a, d, i) ==
    IF i = -2
    THEN IF a.existing_path = NoPath \/ Rename(a, d) THEN NoPath ELSE a.existing_path
    ELSE IF i = -1
    THEN MkPath(d, "id", a.connection.id, 0, 0, "")
    ELSE MkPath(d, "iduuid", a.connection.id, a.connection.uuid, i, "")

\* is_existing_path = existing_path && nm_streq(existing_path, path_candidate)
IsExistingPath(a, p) == a.existing_path # NoPath /\ a.existing_path = p

\* the callback is NULL or accepts the candidate
AllowFilename(a, p) == ~a.allow_filename_cb \/ p \notin a.rejected

\* CandidateTaken without the g_file_test(path_candidate, G_FILE_TEST_EXISTS)
CandidateTakenIgnoresFiles(a, d, f, i) ==
    LET p == PathCandidate(a, d, i) IN
    /\ p # NoPath
    /\ ~(IsExistingPath(a, p) /\ Rename(a, d))
    /\ AllowFilename(a, p)

\* the loop body reaches "path = g_steal_pointer(&path_candidate); break;"
CandidateTaken(a, d, f, i) ==
    LET p == PathCandidate(a, d, i) IN
    /\ p # NoPath
    /\ ~(IsExistingPath(a, p) /\ Rename(a, d))
    /\ AllowFilename(a, p)
    /\ (IsExistingPath(a, p) \/ ~Exists(f, p))

\* the loop: index of the first candidate taken, MaxIPath when there is none
RECURSIVE SelectIndex(_, _, _, _)
SelectIndex(a, d, f, i) ==
    IF i >= MaxIPath THEN MaxIPath
    ELSE IF CandidateTaken(a, d, f, i) THEN i
    ELSE SelectIndex(a, d, f, i + 1)

SelectedPath(a, d, f) ==
    LET i == SelectIndex(a, d, f, -2) IN
    IF i >= MaxIPath THEN NoPath ELSE PathCandidate(a, d, i)

\* every path the loop can print for this call
Candidates(c, ep, d) ==
    {ep} \cup { MkPath(d, "id", c.id, 0, 0, "") }
         \cup { MkPath(d, "iduuid", c.id, c.uuid, i, "") : i \in 0..(MaxIPath - 1) }

\* ------------------------------------------------------------------ initial state
\* The files present before the first call: one file per profile (profile 1
\* in keyfile_dir under an older id, profile 2 outside keyfile_dir, profile 3
\* generated by netplan; profile 4 is new or generated by netplan), and
\* possibly files left by earlier writes at the names the candidate loop
\* prints.
InitialFiles(d) ==
    { [p \in files |-> IF p.kind = "netplan" THEN Content(p.uuid, 0)
                       ELSE IF p.id = "b" \/ p.kind = "iduuid" THEN Content(1, 0)
                       ELSE Content(2, 0)] :
      files \in { { MkPath(d, "id", "b", 0, 0, ""),
                    MkPath("other", "id", "a", 0, 0, ""),
                    RunPath(NetdefNM(3), "s") } \cup extra :
                  extra \in SUBSET { MkPath(d, "id", "a", 0, 0, ""),
                                     MkPath(d, "iduuid", "a", 1, 0, ""),
                                     RunPath(NetdefNM(4), "s") } } }

\* the netplan YAML store the generated files of f come from
InitialYaml(f) ==
    [nd \in {NetdefNM(p.uuid) : p \in {q \in DOMAIN f : q.kind = "netplan"}} |->
        [ssid |-> "s", data |-> Content(nd.uuid, 0)]]

\* no writer call is running
WriterIdle ==
    /\ nwrites = 0
    /\ pc = "idle"
    /\ args = NoArgs
    /\ path = NoPath
    /\ selected = NoPath
    /\ netplan_id = NoNetdef
    /\ ifname = ""
    /\ kf_path = NoPath
    /\ netdef = NoNetdef
    /\ actual_netplan_id = NoNetdef
    /\ reread = 0
    /\ reread_same = FALSE
    /\ ret = "none"
    /\ error = ""
    /\ out_path = UnsetPath
    /\ out_reread = UnsetReread
    /\ out_reread_same = "unset"
    /\ trace = <<>>
    /\ failed = {}
    /\ hist = <<>>

Init ==
    /\ keyfile_dir \in {"etc", "run"}
    /\ fs \in InitialFiles(keyfile_dir)
    /\ yaml = InitialYaml(fs)
    /\ WriterIdle
    /\ testing = FALSE
    /\ mdir = <<>>
    /\ MetaIdle
    /\ OthersOff

\* ------------------------------------------------------------------ the call
\* the combinations of out_path / out_reread / out_reread_same the callers pass
Wants == { <<TRUE, FALSE, FALSE>>, <<TRUE, TRUE, TRUE>> }

\* the answers of allow_filename_cb: the candidates it refuses
Filters(cands) == {r \in SUBSET cands : Cardinality(r) <= 1 \/ r = cands}

\* entry of _internal_write_connection: the arguments; Spec follows one call
\* from each initial state
Call ==
    /\ pc = "idle"
    /\ nwrites = 0
    /\ \E c \in Profiles, vol \in BOOLEAN, ro \in BOOLEAN, fr \in BOOLEAN,
          w \in Wants :
       \E ep \in {NoPath} \cup {p \in DOMAIN fs : fs[p].uuid = c.uuid} :
         /\ (ep = NoPath => ~ro /\ ~fr)
         /\ \E cb \in BOOLEAN,
               rej \in Filters(Candidates(c, ep, keyfile_dir) \ {NoPath}) :
              /\ (~cb => rej = {})
              /\ args' = [connection |-> c, is_volatile |-> vol,
                          existing_path |-> ep, existing_path_read_only |-> ro,
                          force_rename |-> fr, allow_filename_cb |-> cb,
                          rejected |-> rej, want_path |-> w[1],
                          want_reread |-> w[2], want_same |-> w[3]]
    /\ nwrites' = nwrites + 1
    /\ pc' = "serialize"
    /\ UNCHANGED <<meta, others, env, keyfile_dir, locals, ret, error, outs, trace, failed, hist>>

\* entry of _internal_write_connection for a profile that has no file yet:
\* existing_path = NULL, allow_filename_cb = NULL
\* (nms_keyfile_writer_test_connection passes these)
CallNew ==
    /\ pc = "idle"
    /\ nwrites < MaxSeq
    /\ \E c \in Profiles, vol \in BOOLEAN, w \in Wants :
         args' = [connection |-> c, is_volatile |-> vol,
                  existing_path |-> NoPath, existing_path_read_only |-> FALSE,
                  force_rename |-> FALSE, allow_filename_cb |-> FALSE,
                  rejected |-> {}, want_path |-> w[1],
                  want_reread |-> w[2], want_same |-> w[3]]
    /\ nwrites' = nwrites + 1
    /\ pc' = "serialize"
    /\ UNCHANGED <<meta, others, env, keyfile_dir, locals, ret, error, outs, trace, failed, hist>>

\* ReturnFalse handing the local path to the caller
ReturnFalseSetsPath(msg) ==
    /\ ret' = "FALSE"
    /\ error' = msg
    /\ pc' = "returned"
    /\ out_path' = path
    /\ UNCHANGED <<out_reread, out_reread_same>>

\* "g_set_error(error, ...); return FALSE;" - the outputs are not touched
ReturnFalse(msg) ==
    /\ ret' = "FALSE"
    /\ error' = msg
    /\ pc' = "returned"
    /\ UNCHANGED outs

\* lines 239-284: nm_keyfile_write, the nmmeta keys, g_key_file_to_data, mkdir
Serialize ==
    /\ pc = "serialize"
    /\ \E ok \in BOOLEAN :
         IF ok
         THEN /\ pc' = "select"
              /\ trace' = trace \o <<"nm_keyfile_write", "mkdir">>
              /\ UNCHANGED <<ret, error, outs>>
         ELSE /\ ReturnFalse("serialize")
              /\ trace' = Append(trace, "nm_keyfile_write")
    /\ UNCHANGED <<meta, others, hist, env, keyfile_dir, nwrites, args, locals, failed>>

\* SelectPath going on with <keyfile_dir>/<escape(id)> when the loop found nothing
SelectPathFallsBack ==
    /\ pc = "select"
    /\ LET p == SelectedPath(args, keyfile_dir, fs)
           q == IF p = NoPath THEN PathCandidate(args, keyfile_dir, -1) ELSE p
       IN /\ path' = q
          /\ selected' = q
          /\ pc' = "reread"
          /\ UNCHANGED <<ret, error, outs>>
    /\ UNCHANGED <<meta, others, hist, env, keyfile_dir, nwrites, args, netplan_id, ifname, kf_path,
                   netdef, actual_netplan_id, reread, reread_same, trace, failed>>

\* SelectPath going straight to the content write
SelectPathSkipsReread ==
    /\ pc = "select"
    /\ LET p == SelectedPath(args, keyfile_dir, fs) IN
         /\ path' = p
         /\ selected' = p
         /\ IF p = NoPath
            THEN ReturnFalse("could not find suitable keyfile file name")
            ELSE /\ pc' = "write"
                 /\ UNCHANGED <<ret, error, outs>>
    /\ UNCHANGED <<meta, others, hist, env, keyfile_dir, nwrites, args, netplan_id, ifname, kf_path,
                   netdef, actual_netplan_id, reread, reread_same, trace, failed>>

\* lines 286-347: the candidate loop and the "could not find suitable keyfile
\* file name" return
SelectPath ==
    /\ pc = "select"
    /\ LET p == SelectedPath(args, keyfile_dir, fs) IN
         /\ path' = p
         /\ selected' = p
         /\ IF p = NoPath
            THEN ReturnFalse("could not find suitable keyfile file name")
            ELSE /\ pc' = "reread"
                 /\ UNCHANGED <<ret, error, outs>>
    /\ UNCHANGED <<meta, others, hist, env, keyfile_dir, nwrites, args, netplan_id, ifname, kf_path,
                   netdef, actual_netplan_id, reread, reread_same, trace, failed>>

\* lines 349-385: nms_keyfile_reader_from_keyfile + nm_connection_normalize on
\* the in-memory keyfile, then nm_connection_compare
RereadKeyfile ==
    /\ pc = "reread"
    /\ IF args.want_reread \/ args.want_same
       THEN \E ok \in BOOLEAN, same \in BOOLEAN :
              IF ok
              THEN /\ reread' = args.connection.uuid
                   /\ reread_same' = (args.want_same /\ same)
                   /\ pc' = "write"
                   /\ trace' = Append(trace, "reread_keyfile")
                   /\ UNCHANGED <<ret, error, outs>>
              ELSE /\ ~same
                   /\ ReturnFalse("keyfile writer produces an invalid connection")
                   /\ trace' = Append(trace, "reread_keyfile")
                   /\ UNCHANGED <<reread, reread_same>>
       ELSE /\ pc' = "write"
            /\ UNCHANGED <<reread, reread_same, trace, ret, error, outs>>
    /\ UNCHANGED <<meta, others, hist, env, keyfile_dir, nwrites, args, path, selected, netplan_id, ifname,
                   kf_path, netdef, actual_netplan_id, failed>>

\* WriteContents removing the old file before the new one is written
WriteContentsUnlinksOld ==
    /\ pc = "write"
    /\ \E ok \in BOOLEAN :
         IF ok
         THEN /\ fs' = SetContents(Unlink(fs, args.existing_path), path,
                                   Content(args.connection.uuid, nwrites))
              /\ pc' = "chown"
              /\ UNCHANGED <<ret, error, outs>>
         ELSE /\ ReturnFalse("error writing to file")
              /\ fs' = Unlink(fs, args.existing_path)
    /\ trace' = Append(trace, "set_contents")
    /\ UNCHANGED <<meta, others, hist, yaml, keyfile_dir, nwrites, args, locals, failed>>

\* lines 387-396: nm_utils_file_set_contents(path, ..., 0600, ...); it replaces
\* the file atomically, so a failure leaves what was at path
WriteContents ==
    /\ pc = "write"
    /\ \E ok \in BOOLEAN :
         IF ok
         THEN /\ fs' = SetContents(fs, path, Content(args.connection.uuid, nwrites))
              /\ pc' = "chown"
              /\ UNCHANGED <<ret, error, outs>>
         ELSE /\ ReturnFalse("error writing to file")
              /\ UNCHANGED fs
    /\ trace' = Append(trace, "set_contents")
    /\ UNCHANGED <<meta, others, hist, yaml, keyfile_dir, nwrites, args, locals, failed>>

\* Chown with the unlink(path) of the failure branch left out
ChownKeepsFile ==
    /\ pc = "chown"
    /\ \E ok \in BOOLEAN :
         IF ok
         THEN /\ pc' = "unlink_existing"
              /\ trace' = Append(trace, "chown")
              /\ UNCHANGED <<fs, ret, error, outs>>
         ELSE /\ UNCHANGED fs
              /\ trace' = Append(trace, "chown")
              /\ ReturnFalse("error chowning")
    /\ UNCHANGED <<meta, others, hist, yaml, keyfile_dir, nwrites, args, locals, failed>>

\* lines 398-409: chown(path, owner_uid, owner_grp); on failure unlink(path)
Chown ==
    /\ pc = "chown"
    /\ \E ok \in BOOLEAN :
         IF ok
         THEN /\ pc' = "unlink_existing"
              /\ trace' = Append(trace, "chown")
              /\ UNCHANGED <<fs, ret, error, outs>>
         ELSE /\ fs' = Unlink(fs, path)
              /\ trace' = trace \o <<"chown", "unlink_path">>
              /\ ReturnFalse("error chowning")
    /\ UNCHANGED <<meta, others, hist, yaml, keyfile_dir, nwrites, args, locals, failed>>

\* UnlinkExisting going on to the netplan steps for a volatile profile too
UnlinkExistingAlwaysProjects ==
    /\ pc = "unlink_existing"
    /\ IF /\ args.existing_path # NoPath
          /\ ~args.existing_path_read_only
          /\ path # args.existing_path
       THEN /\ fs' = Unlink(fs, args.existing_path)
            /\ trace' = Append(trace, "unlink_existing")
       ELSE UNCHANGED <<fs, trace>>
    /\ pc' = "netplan_id"
    /\ UNCHANGED <<meta, others, hist, yaml, keyfile_dir, nwrites, args, locals, ret, error, outs,
                   failed>>

\* lines 414-418: remove the old file of a renamed profile; a volatile profile
\* is done
UnlinkExisting ==
    /\ pc = "unlink_existing"
    /\ IF /\ args.existing_path # NoPath
          /\ ~args.existing_path_read_only
          /\ path # args.existing_path
       THEN /\ fs' = Unlink(fs, args.existing_path)
            /\ trace' = Append(trace, "unlink_existing")
       ELSE UNCHANGED <<fs, trace>>
    /\ pc' = IF args.is_volatile THEN "set_out" ELSE "netplan_id"
    /\ UNCHANGED <<meta, others, hist, yaml, keyfile_dir, nwrites, args, locals, ret, error, outs,
                   failed>>

\* ------------------------------------------------------------------ projection
\* strstr(existing_path, "system-connections/netplan-")
LooksLikeNetplanPath(p) == p.kind = "netplan" /\ p.dir \in {"etc", "run"}

\* netplan_get_id_from_nm_filepath(existing_path, ssid, ...): the part of the
\* file name between "netplan-" and "[-<ssid>].nmconnection"; NoNetdef when
\* the size returned is <= 0
GetIdFromNmFilepath(p, ssid) ==
    IF p.kind = "netplan" /\ p.ssid = ssid
    THEN [id |-> p.id, uuid |-> p.uuid]
    ELSE NoNetdef

\* lines 419-451: the prior netplan id taken from existing_path, the copy of
\* the new keyfile over existing_path (its result is not looked at), else
\* the id NM-<uuid>
NetplanId ==
    /\ pc = "netplan_id"
    /\ LET ep    == args.existing_path
           prior == IF ep # NoPath /\ LooksLikeNetplanPath(ep)
                    THEN GetIdFromNmFilepath(ep, args.connection.ssid)
                    ELSE NoNetdef
       IN IF prior # NoNetdef /\ ep # NoPath
          THEN /\ netplan_id' = prior
               /\ kf_path' = ep
               /\ ifname' = ""
               /\ \E ok \in BOOLEAN :
                    IF ok
                    THEN /\ fs' = SetContents(fs, ep, fs[path])
                         /\ UNCHANGED failed
                    ELSE /\ UNCHANGED fs
                         /\ failed' = failed \cup {"g_file_copy"}
               /\ trace' = Append(trace, "g_file_copy")
          ELSE /\ netplan_id' = NetdefNM(args.connection.uuid)
               /\ kf_path' = path
               /\ ifname' = args.connection.ifname
               /\ UNCHANGED <<fs, failed, trace>>
    /\ pc' = "load"
    /\ UNCHANGED <<meta, others, hist, yaml, keyfile_dir, nwrites, args, path, selected, netdef,
                   actual_netplan_id, reread, reread_same, ret, error, outs>>

\* the ids netplan can give the definition it parses out of the keyfile at
\* kf_path: the one in the file name, NM-<uuid>, or the interface name
ParsedIds(a, kp) ==
    {GetIdFromNmFilepath(kp, a.connection.ssid), NetdefNM(a.connection.uuid)}
      \cup (IF a.connection.ifname # "" THEN {NetdefIf(a.connection.ifname)} ELSE {})

\* lines 454-461: netplan_parser_load_keyfile(npp, kf_path, &local_err)
LoadKeyfile ==
    /\ pc = "load"
    /\ \E ok \in BOOLEAN :
         IF ok
         THEN /\ Exists(fs, kf_path)
              /\ \E nd \in ParsedIds(args, kf_path) \ {NoNetdef} : netdef' = nd
              /\ pc' = "lookup"
              /\ UNCHANGED <<failed, ret, error, outs>>
         ELSE /\ failed' = failed \cup {"netplan_parser_load_keyfile"}
              /\ ReturnFalse("netplan: YAML translation failed")
              /\ UNCHANGED netdef
    /\ trace' = Append(trace, "netplan_parser_load_keyfile")
    /\ UNCHANGED <<meta, others, hist, env, keyfile_dir, nwrites, args, path, selected, netplan_id, ifname,
                   kf_path, actual_netplan_id, reread, reread_same>>

\* netplan_state_get_netdef(np_state, key) on a state that holds nd
GetNetdef(nd, key) == nd # NoNetdef /\ key # NoNetdef /\ nd = key

\* lines 463-485: netplan_state_import_parser_results (its result is not
\* looked at), the lookup by netplan_id, then by ifname, and the "netdef ID
\* was not found" return
ImportLookup ==
    /\ pc = "lookup"
    /\ \E imported \in BOOLEAN, kept \in BOOLEAN :
         LET st == IF imported \/ kept THEN netdef ELSE NoNetdef
             byId == GetNetdef(st, netplan_id)
             byIf == GetNetdef(st, NetdefIf(ifname)) /\ ifname # ""
         IN /\ (imported => kept)
            /\ failed' = IF imported THEN failed
                         ELSE failed \cup {"netplan_state_import_parser_results"}
            /\ netdef' = st
            /\ actual_netplan_id' = IF byId THEN netplan_id
                                    ELSE IF ifname # "" THEN NetdefIf(ifname)
                                    ELSE NoNetdef
            /\ IF byId \/ byIf
               THEN /\ pc' = "write_yaml"
                    /\ UNCHANGED <<ret, error, outs>>
               ELSE ReturnFalse("netplan: netdef ID was not found")
    /\ trace' = trace \o <<"netplan_state_import_parser_results",
                           "netplan_state_get_netdef">>
    /\ UNCHANGED <<meta, others, hist, env, keyfile_dir, nwrites, args, path, selected, netplan_id, ifname,
                   kf_path, reread, reread_same>>

\* line 477: netplan_netdef_write_yaml(np_state, netdef_id, rootdir, &local_err);
\* its result is not looked at
WriteYaml ==
    /\ pc = "write_yaml"
    /\ \E ok \in BOOLEAN :
         IF ok
         THEN /\ yaml' = [nd \in (DOMAIN yaml) \cup {actual_netplan_id} |->
                            IF nd = actual_netplan_id
                            THEN [ssid |-> args.connection.ssid, data |-> fs[kf_path]]
                            ELSE yaml[nd]]
              /\ UNCHANGED failed
         ELSE /\ failed' = failed \cup {"netplan_netdef_write_yaml"}
              /\ UNCHANGED yaml
    /\ trace' = Append(trace, "netplan_netdef_write_yaml")
    /\ pc' = "unlink_path"
    /\ UNCHANGED <<meta, others, hist, fs, keyfile_dir, nwrites, args, locals, ret, error, outs>>

\* lines 490-500: unlink(path), "we've written the /etc/netplan/*.yaml file
\* instead"
UnlinkPath ==
    /\ pc = "unlink_path"
    /\ fs' = Unlink(fs, path)
    /\ trace' = Append(trace, "unlink_path")
    /\ pc' = "generate"
    /\ UNCHANGED <<meta, others, hist, yaml, keyfile_dir, nwrites, args, locals, ret, error, outs,
                   failed>>

\* what netplan_generate leaves on disk: the netplan-* keyfiles of the
\* run-time directory are removed and one is written per YAML definition
Generated(f, y) ==
    LET kept == {p \in DOMAIN f : ~(p.dir = "run" /\ p.kind = "netplan")}
        gen  == {RunPath(nd, y[nd].ssid) : nd \in DOMAIN y}
    IN [p \in kept \cup gen |->
          IF p \in gen
          THEN y[CHOOSE nd \in DOMAIN y : RunPath(nd, y[nd].ssid) = p].data
          ELSE f[p]]

\* lines 501-506: netplan_generate(rootdir), _fix_netplan_interface_name
Generate ==
    /\ pc = "generate"
    /\ \E ok \in BOOLEAN :
         IF ok
         THEN /\ fs' = Generated(fs, yaml)
              /\ trace' = trace \o <<"netplan_generate", "_fix_netplan_interface_name">>
              /\ pc' = "final_path"
              /\ UNCHANGED <<failed, ret, error, outs>>
         ELSE /\ failed' = failed \cup {"netplan_generate"}
              /\ trace' = Append(trace, "netplan_generate")
              /\ ReturnFalse("netplan generate failed")
              /\ UNCHANGED fs
    /\ UNCHANGED <<meta, others, hist, yaml, keyfile_dir, nwrites, args, locals>>

\* FinalPath with the SSID left out of the second file name
FinalPathDropsSsid(a, f, actual) ==
    IF a.existing_path # NoPath
    THEN a.existing_path
    ELSE LET p == RunPath(NetdefNM(a.connection.uuid), a.connection.ssid) IN
         IF Exists(f, p) THEN p ELSE RunPath(actual, "")

\* lines 508-531: the path handed back
FinalPath(a, f, actual) ==
    IF a.existing_path # NoPath
    THEN a.existing_path
    ELSE LET p == RunPath(NetdefNM(a.connection.uuid), a.connection.ssid) IN
         IF Exists(f, p) THEN p ELSE RunPath(actual, a.connection.ssid)

\* lines 508-563: the final path, and nms_keyfile_reader_from_file on it when
\* a re-read was asked for
RereadFile ==
    /\ pc = "final_path"
    /\ LET p == FinalPath(args, fs, actual_netplan_id) IN
         /\ path' = p
         /\ IF args.want_reread \/ args.want_same
            THEN \E ok \in BOOLEAN, same \in BOOLEAN :
                   IF ok
                   THEN /\ Exists(fs, p)
                        /\ reread' = fs[p].uuid
                        /\ reread_same' = (args.want_same /\ same)
                        /\ pc' = "set_out"
                        /\ UNCHANGED <<ret, error, outs>>
                   ELSE /\ ~same
                        /\ ReturnFalse("keyfile writer produces an invalid connection")
                        /\ UNCHANGED <<reread, reread_same>>
            ELSE /\ pc' = "set_out"
                 /\ UNCHANGED <<reread, reread_same, ret, error, outs>>
    /\ trace' = IF args.want_reread \/ args.want_same
                THEN Append(trace, "reread_file") ELSE trace
    /\ UNCHANGED <<meta, others, hist, env, keyfile_dir, nwrites, args, selected, netplan_id,
                   ifname, kf_path, netdef, actual_netplan_id, failed>>

\* lines 566-570: NM_SET_OUT(...) x 3; return TRUE
SetOut ==
    /\ pc = "set_out"
    /\ out_reread' = IF args.want_reread THEN reread ELSE out_reread
    /\ out_reread_same' = IF args.want_same
                          THEN (IF reread_same THEN "TRUE" ELSE "FALSE")
                          ELSE out_reread_same
    /\ out_path' = IF args.want_path THEN path ELSE out_path
    /\ ret' = "TRUE"
    /\ pc' = "returned"
    /\ UNCHANGED <<meta, others, hist, env, keyfile_dir, nwrites, args, locals, error, trace, failed>>

\* the frame of the call is gone
Reset ==
    /\ pc' = "idle"
    /\ args' = NoArgs
    /\ path' = NoPath
    /\ selected' = NoPath
    /\ netplan_id' = NoNetdef
    /\ ifname' = ""
    /\ kf_path' = NoPath
    /\ netdef' = NoNetdef
    /\ actual_netplan_id' = NoNetdef
    /\ reread' = 0
    /\ reread_same' = FALSE
    /\ ret' = "none"
    /\ error' = ""
    /\ out_path' = UnsetPath
    /\ out_reread' = UnsetReread
    /\ out_reread_same' = "unset"
    /\ trace' = <<>>
    /\ failed' = {}
    /\ UNCHANGED <<meta, others, env, keyfile_dir, nwrites>>

\* the caller takes the results
Finish ==
    /\ pc = "returned"
    /\ Reset
    /\ UNCHANGED hist

\* the caller takes the results and keeps those of a successful call
FinishLog ==
    /\ pc = "returned"
    /\ Reset
    /\ hist' = IF ret = "TRUE"
               THEN Append(hist, [uuid |-> args.connection.uuid,
                                  is_volatile |-> args.is_volatile,
                                  out_path |-> out_path])
               ELSE hist

\* the steps of _internal_write_connection
Step ==
    \/ Serialize
    \/ SelectPath
    \/ RereadKeyfile
    \/ WriteContents
    \/ Chown
    \/ UnlinkExisting
    \/ NetplanId
    \/ LoadKeyfile
    \/ ImportLookup
    \/ WriteYaml
    \/ UnlinkPath
    \/ Generate
    \/ RereadFile
    \/ SetOut

Next == Call \/ Step \/ Finish

Spec == Init /\ [][Next]_vars

NextSeq == CallNew \/ Step \/ FinishLog

SpecSeq == Init /\ [][NextSeq]_vars

\* ------------------------------------------------------------------ sidecar names
\* A file name is a sequence of characters.

\* the length of a normalized UUID: the 36 of nms_keyfile_nmmeta_check_filename
UuidLen == 36

\* NM_KEYFILE_PATH_SUFFIX_NMMETA
NM_KEYFILE_PATH_SUFFIX_NMMETA == <<".", "n", "m", "m", "e", "t", "a">>

\* the positions of the dashes of a UUID in its text form
DashAt == {9, 14, 19, 24}

HexLower == {"0", "1", "2", "3", "4", "5", "6", "7", "8", "9",
             "a", "b", "c", "d", "e", "f"}

\* nm_uuid_is_normalized(str): the lower-case text form 8-4-4-4-12
nm_uuid_is_normalized(str) ==
    /\ Len(str) = UuidLen
    /\ \A i \in 1..UuidLen :
         IF i \in DashAt THEN str[i] = "-" ELSE str[i] \in HexLower

\* a UUID-shaped text whose digits are all c
UuidOf(c) == [i \in 1..UuidLen |-> IF i \in DashAt THEN "-" ELSE c]

\* the UUIDs of the profiles that have sidecars
Uuid1 == UuidOf("a")
Uuid2 == UuidOf("1")

\* index of the last '/' of str, 0 when there is none (strrchr)
LastSlash(str) ==
    LET S == {i \in 1..Len(str) : str[i] = "/"} IN
    IF S = {} THEN 0 ELSE CHOOSE i \in S : \A j \in S : j <= i

\* nms_keyfile_nmmeta_check_filename with a trailing '~' cut off first
CheckFilenameAllowsTilde(filename) ==
    LET base == SubSeq(filename, LastSlash(filename) + 1, Len(filename))
        cut  == IF Len(base) > 0 /\ base[Len(base)] = "~"
                THEN SubSeq(base, 1, Len(base) - 1) ELSE base
        len  == Len(cut)
        sl   == Len(NM_KEYFILE_PATH_SUFFIX_NMMETA)
    IN IF len <= sl \/ SubSeq(cut, len - sl + 1, len) # NM_KEYFILE_PATH_SUFFIX_NMMETA
       THEN NoName
       ELSE IF len - sl # UuidLen
       THEN NoName
       ELSE IF ~nm_uuid_is_normalized(SubSeq(cut, 1, UuidLen))
       THEN NoName
       ELSE base

\* nms_keyfile_nmmeta_check_filename(filename, &uuid_len): the file name
\* without directory when it is accepted (uuid_len is then UuidLen), NoName
\* for NULL
nms_keyfile_nmmeta_check_filename(filename) ==
    LET base == SubSeq(filename, LastSlash(filename) + 1, Len(filename))
        len  == Len(base)
        sl   == Len(NM_KEYFILE_PATH_SUFFIX_NMMETA)
    IN IF len <= sl \/ SubSeq(base, len - sl + 1, len) # NM_KEYFILE_PATH_SUFFIX_NMMETA
       THEN NoName
       ELSE IF len - sl # UuidLen
       THEN NoName
       ELSE IF ~nm_uuid_is_normalized(SubSeq(base, 1, UuidLen))
       THEN NoName
       ELSE base

\* nms_keyfile_nmmeta_filename(dirname, uuid, temporary), without dirname
nms_keyfile_nmmeta_filename(uuid, temporary) ==
    uuid \o NM_KEYFILE_PATH_SUFFIX_NMMETA \o (IF temporary THEN <<"~">> ELSE <<>>)

\* the file names handed to nms_keyfile_nmmeta_read
FileNames ==
    { nms_keyfile_nmmeta_filename(Uuid1, FALSE),
      nms_keyfile_nmmeta_filename(Uuid1, TRUE),
      nms_keyfile_nmmeta_filename(Uuid2, FALSE),
      nms_keyfile_nmmeta_filename(UuidOf("A"), FALSE),
      nms_keyfile_nmmeta_filename(UuidOf("g"), FALSE),
      nms_keyfile_nmmeta_filename(UuidOf("-"), FALSE),
      nms_keyfile_nmmeta_filename(SubSeq(Uuid1, 1, UuidLen - 1), FALSE),
      nms_keyfile_nmmeta_filename(Uuid1 \o <<"a">>, FALSE),
      nms_keyfile_nmmeta_filename(<<"~">> \o SubSeq(Uuid1, 1, UuidLen - 1), FALSE),
      Uuid1,
      Uuid1 \o <<".", "n", "m", "m", "e", "t", "A">>,
      Uuid1 \o NM_KEYFILE_PATH_SUFFIX_NMMETA \o <<"~", "~">>,
      NM_KEYFILE_PATH_SUFFIX_NMMETA,
      <<"x">> }

\* ------------------------------------------------------------------ sidecar files
\* dirname
DirName == "/d"

\* the profile file the sidecars point to, and /dev/null
ProfilePath == LPath(DirName, <<"x">>)
OtherPath == LPath("/o", <<"y">>)
DevNull == LPath("/dev", <<"n", "u", "l", "l">>)

\* a file: type ("reg", "lnk", "dir", "chr"), owner, permission bits of
\* st_mode; for a regular file whether it parses as a keyfile and the keys
\* of its group "nmmeta" (<<>>, NoLPath, NoStr: no such key); for a symlink
\* its target in loaded_path
MkFile(t, u, m, k, id, lp, ss) ==
    [type |-> t, uid |-> u, mode |-> m, kf |-> k, uuid |-> id,
     loaded_path |-> lp, shadowed_storage |-> ss]

\* nm_utils_get_nm_uid()
nm_utils_get_nm_uid == 100

\* g_key_file_to_data of the three keys, written by nm_utils_file_set_contents
\* with mode 0600 by the daemon
KeyfileRecord(id, lp, ss) == MkFile("reg", 0, 384, TRUE, id, lp, ss)

\* symlink(target, ...) made by the daemon
SymlinkRecord(target) == MkFile("lnk", 0, 511, FALSE, <<>>, target, NoStr)

\* what /dev/null is
DevNullFile == MkFile("chr", 0, 438, FALSE, <<>>, NoLPath, NoStr)

\* lstat(dirname/name)
Lstat(f, name) == IF name \in DOMAIN f THEN f[name] ELSE NoFile

\* stat(dirname/name): a symlink is followed (no link of the model points to
\* a link); besides the files of dirname only /dev/null exists
Stat(f, name) ==
    LET l == Lstat(f, name) IN
    IF l.type # "lnk" THEN l
    ELSE IF l.loaded_path = DevNull THEN DevNullFile
    ELSE IF l.loaded_path.dir \in {"", DirName}
            /\ Lstat(f, l.loaded_path.base).type # "lnk"
    THEN Lstat(f, l.loaded_path.base)
    ELSE NoFile

\* ------------------------------------------------------------------ permission check
\* the outcome of a check: return value, code and message of *error ("": no
\* error set), *out_st (UnsetStat: not written)
UnsetStat == [NoFile EXCEPT !.type = "unset"]

PermOk(st) == [ret |-> TRUE, code |-> "", msg |-> "", out_st |-> st]

PermError(m) == [ret |-> FALSE, code |-> "NM_SETTINGS_ERROR_INVALID_CONNECTION",
                 msg |-> m, out_st |-> UnsetStat]

\* the check with the owner test applied to the override too
CheckStatOwnerAlways(filetype, st, tst) ==
    IF filetype = "KEYFILE" /\ st.type # "reg"
    THEN PermError("file is not a regular file")
    ELSE IF filetype = "NMMETA" /\ st.type \notin {"lnk", "reg"}
    THEN PermError("file is neither a symlink nor a regular file")
    ELSE IF filetype \notin {"KEYFILE", "NMMETA"}
    THEN [PermError("") EXCEPT !.code = ""]
    ELSE IF st.uid \notin {0, nm_utils_get_nm_uid}
    THEN PermError("File owner is insecure")
    ELSE IF ~tst /\ st.type = "reg" /\ st.mode % 64 # 0
    THEN PermError("File permissions are insecure")
    ELSE PermOk(UnsetStat)

\* nms_keyfile_utils_check_file_permissions_stat(filetype, st, error); tst:
\* NM_UTILS_TEST_NO_KEYFILE_OWNER_CHECK is set.  st_mode & 0077 is mode % 64.
nms_keyfile_utils_check_file_permissions_stat(filetype, st, tst) ==
    IF filetype = "KEYFILE" /\ st.type # "reg"
    THEN PermError("file is not a regular file")
    ELSE IF filetype = "NMMETA" /\ st.type \notin {"lnk", "reg"}
    THEN PermError("file is neither a symlink nor a regular file")
    ELSE IF filetype \notin {"KEYFILE", "NMMETA"}
    THEN [PermError("") EXCEPT !.code = ""]
    ELSE IF ~tst /\ st.uid \notin {0, nm_utils_get_nm_uid}
    THEN PermError("File owner is insecure")
    ELSE IF ~tst /\ st.type = "reg" /\ st.mode % 64 # 0
    THEN PermError("File permissions are insecure")
    ELSE PermOk(UnsetStat)

\* nms_keyfile_utils_check_file_permissions(filetype, filename, out_st, error)
nms_keyfile_utils_check_file_permissions(filetype, name, f, tst) ==
    LET st == IF filetype = "KEYFILE" THEN Stat(f, name) ELSE Lstat(f, name) IN
    IF filetype \notin {"KEYFILE", "NMMETA"}
    THEN [PermError("") EXCEPT !.code = ""]
    ELSE IF st = NoFile
    THEN PermError("cannot access file")
    ELSE IF ~nms_keyfile_utils_check_file_permissions_stat(filetype, st, tst).ret
    THEN nms_keyfile_utils_check_file_permissions_stat(filetype, st, tst)
    ELSE PermOk(st)

\* ------------------------------------------------------------------ sidecar read
\* outputs nms_keyfile_nmmeta_read has not written
UnsetName == <<"<unset>">>
UnsetLPath == LPath("<unset>", <<>>)
UnsetStr == "<unset>"

\* "return FALSE" after the system calls sys; st: what *out_st holds
ReadFalse(st, sys) ==
    [op |-> "read", ret |-> FALSE, out_uuid |-> UnsetName,
     out_full_filename |-> UnsetLPath, out_loaded_path |-> UnsetLPath,
     out_shadowed_storage |-> UnsetStr, out_st |-> st, sys |-> sys]

\* strncmp(v_uuid, uuid, uuid_len) == 0, uuid holding uuid_len characters
StrNCmpEqual(v, uuid) == Len(v) >= Len(uuid) /\ SubSeq(v, 1, Len(uuid)) = uuid

\* nm_utils_read_link_absolute(dirname/name): the target, made absolute
\* against dirname
nm_utils_read_link_absolute(target) ==
    IF target.dir = "" THEN LPath(DirName, target.base) ELSE target

\* the read without "if (v_uuid[uuid_len] != '\0') return FALSE"
ReadIgnoresUuidTail(f, filename, tst) ==
    LET checked == nms_keyfile_nmmeta_check_filename(filename)
        uuid    == SubSeq(checked, 1, UuidLen)
        perm    == nms_keyfile_utils_check_file_permissions("NMMETA", filename, f, tst)
        file    == Lstat(f, filename)
        done(lp, ss, sys) ==
            [op |-> "read", ret |-> TRUE, out_uuid |-> uuid,
             out_full_filename |-> LPath(DirName, filename),
             out_loaded_path |-> lp, out_shadowed_storage |-> ss,
             out_st |-> perm.out_st, sys |-> sys]
    IN IF checked = NoName THEN ReadFalse(UnsetStat, <<>>)
       ELSE IF ~perm.ret THEN ReadFalse(UnsetStat, <<"lstat">>)
       ELSE IF file.type = "reg"
       THEN IF ~file.kf THEN ReadFalse(perm.out_st, <<"lstat", "open">>)
            ELSE IF file.uuid = <<>> THEN ReadFalse(perm.out_st, <<"lstat", "open">>)
            ELSE IF ~StrNCmpEqual(file.uuid, uuid)
            THEN ReadFalse(perm.out_st, <<"lstat", "open">>)
            ELSE IF file.loaded_path = NoLPath /\ file.shadowed_storage = NoStr
            THEN ReadFalse(perm.out_st, <<"lstat", "open">>)
            ELSE done(file.loaded_path, file.shadowed_storage, <<"lstat", "open">>)
       ELSE done(nm_utils_read_link_absolute(file.loaded_path), NoStr,
                 <<"lstat", "readlink">>)

\* nms_keyfile_nmmeta_read(dirname, filename, out_full_filename, out_uuid,
\* out_loaded_path, out_shadowed_storage, out_st) on the files f
nms_keyfile_nmmeta_read(f, filename, tst) ==
    LET checked == nms_keyfile_nmmeta_check_filename(filename)
        uuid    == SubSeq(checked, 1, UuidLen)
        perm    == nms_keyfile_utils_check_file_permissions("NMMETA", filename, f, tst)
        file    == Lstat(f, filename)
        done(lp, ss, sys) ==
            [op |-> "read", ret |-> TRUE, out_uuid |-> uuid,
             out_full_filename |-> LPath(DirName, filename),
             out_loaded_path |-> lp, out_shadowed_storage |-> ss,
             out_st |-> perm.out_st, sys |-> sys]
    IN IF checked = NoName THEN ReadFalse(UnsetStat, <<>>)
       ELSE IF ~perm.ret THEN ReadFalse(UnsetStat, <<"lstat">>)
       ELSE IF file.type = "reg"
       THEN IF ~file.kf THEN ReadFalse(perm.out_st, <<"lstat", "open">>)
            ELSE IF file.uuid = <<>> THEN ReadFalse(perm.out_st, <<"lstat", "open">>)
            ELSE IF ~StrNCmpEqual(file.uuid, uuid)
            THEN ReadFalse(perm.out_st, <<"lstat", "open">>)
            ELSE IF Len(file.uuid) # UuidLen
            THEN ReadFalse(perm.out_st, <<"lstat", "open">>)
            ELSE IF file.loaded_path = NoLPath /\ file.shadowed_storage = NoStr
            THEN ReadFalse(perm.out_st, <<"lstat", "open">>)
            ELSE done(file.loaded_path, file.shadowed_storage, <<"lstat", "open">>)
       ELSE done(nm_utils_read_link_absolute(file.loaded_path), NoStr,
                 <<"lstat", "readlink">>)

\* ------------------------------------------------------------------ sidecar write
\* the final and the temporary file name of the sidecar of Uuid1
FinalName == nms_keyfile_nmmeta_filename(Uuid1, FALSE)
TmpName == nms_keyfile_nmmeta_filename(Uuid1, TRUE)

\* errno of a missing file; the errno values of the other failures
ENOENT == 2
Errnos == {13, 28}

\* the files a sidecar name can hold before the first call
SampleRecords ==
    { KeyfileRecord(Uuid1, ProfilePath, "s"),
      KeyfileRecord(Uuid1, LPath("", <<"x">>), "s"),
      KeyfileRecord(Uuid1, ProfilePath, NoStr),
      KeyfileRecord(Uuid1, NoLPath, "s"),
      KeyfileRecord(Uuid1, NoLPath, NoStr),
      KeyfileRecord(Uuid2, ProfilePath, "s"),
      KeyfileRecord(Uuid1 \o <<"a">>, ProfilePath, "s"),
      KeyfileRecord(<<>>, ProfilePath, "s"),
      MkFile("reg", 0, 384, FALSE, <<>>, NoLPath, NoStr),
      MkFile("reg", 0, 420, TRUE, Uuid1, ProfilePath, "s"),
      MkFile("reg", 1000, 384, TRUE, Uuid1, ProfilePath, "s"),
      MkFile("reg", nm_utils_get_nm_uid, 384, TRUE, Uuid1, ProfilePath, "s"),
      SymlinkRecord(DevNull),
      SymlinkRecord(LPath("", <<"x">>)),
      MkFile("lnk", 1000, 511, FALSE, <<>>, DevNull, NoStr),
      MkFile("dir", 0, 493, FALSE, <<>>, NoLPath, NoStr) }

\* the directory before the first call: the profile file, possibly a file
\* at the final name and a stale one at the temporary name
InitialDirs ==
    { [n \in {<<"x">>} \cup {e[1] : e \in (fin \cup tmp)} |->
          IF n = <<"x">> THEN MkFile("reg", 0, 384, FALSE, <<>>, NoLPath, NoStr)
          ELSE (CHOOSE e \in (fin \cup tmp) : e[1] = n)[2]] :
      fin \in {{}} \cup {{<<FinalName, r>>} : r \in SampleRecords},
      tmp \in {{}} \cup {{<<TmpName, r>>} :
                         r \in {SymlinkRecord(OtherPath),
                                MkFile("dir", 0, 493, FALSE, <<>>, NoLPath, NoStr)}} }

InitMeta ==
    /\ keyfile_dir = "etc"
    /\ fs = <<>>
    /\ yaml = <<>>
    /\ WriterIdle
    /\ testing \in BOOLEAN
    /\ mdir \in InitialDirs
    /\ MetaIdle
    /\ OthersOff

\* unlink(name): a directory stays (EISDIR), a missing file is left missing
MetaUnlink(f, name) ==
    IF Lstat(f, name).type = "dir" THEN f
    ELSE [n \in (DOMAIN f) \ {name} |-> f[n]]

\* create or replace the file at name
MetaPut(f, name, file) ==
    [n \in (DOMAIN f) \cup {name} |-> IF n = name THEN file ELSE f[n]]

\* lines 286-295: loaded_path as stored, relative when it is directly in
\* dirname and loaded_path_allow_relative is set
StoredPath(a) ==
    IF a.loaded_path_allow_relative /\ a.loaded_path.dir = DirName
    THEN LPath("", a.loaded_path.base)
    ELSE a.loaded_path

\* "NM_SET_OUT(out_full_filename, name); return r;"
MetaReturn(name, r) ==
    /\ mout' = name
    /\ mret' = r
    /\ mpc' = "returned"

\* entry of nms_keyfile_nmmeta_write(dirname, uuid, loaded_path,
\* loaded_path_allow_relative, shadowed_storage, out_full_filename)
MetaWriteCall ==
    /\ mpc = "idle"
    /\ \E lp \in {NoLPath, ProfilePath, OtherPath, DevNull},
          rel \in BOOLEAN, ss \in {NoStr, "s"} :
         /\ (ss # NoStr => lp # NoLPath)
         /\ margs' = [op |-> "write", uuid |-> Uuid1, loaded_path |-> lp,
                      loaded_path_allow_relative |-> rel, shadowed_storage |-> ss]
    /\ mprev' = Lstat(mdir, FinalName)
    /\ mpc' = "unlink_tmp"
    /\ UNCHANGED <<writer, others, testing, mdir, mret, mout, mres, mtrace>>

\* lines 267-272: (void) unlink(full_filename_tmp)
MetaUnlinkTmp ==
    /\ mpc = "unlink_tmp"
    /\ mdir' = MetaUnlink(mdir, TmpName)
    /\ mtrace' = Append(mtrace, "unlink_tmp")
    /\ mpc' = IF margs.loaded_path = NoLPath THEN "unlink_final"
              ELSE IF margs.shadowed_storage # NoStr THEN "set_contents"
              ELSE "symlink"
    /\ UNCHANGED <<writer, others, testing, margs, mprev, mret, mout, mres>>

\* MetaUnlinkFinal returning 0 whatever unlink() said
MetaUnlinkFinalIgnoresErrors ==
    /\ mpc = "unlink_final"
    /\ mtrace' = Append(mtrace, "unlink_final")
    /\ IF Lstat(mdir, FinalName) = NoFile
       THEN /\ MetaReturn(FinalName, 0)
            /\ UNCHANGED mdir
       ELSE \E ok \in BOOLEAN :
              IF ok /\ Lstat(mdir, FinalName).type # "dir"
              THEN /\ mdir' = MetaUnlink(mdir, FinalName)
                   /\ MetaReturn(FinalName, 0)
              ELSE /\ UNCHANGED mdir
                   /\ MetaReturn(FinalName, 0)
    /\ UNCHANGED <<writer, others, testing, margs, mprev, mres>>

\* lines 274-284: loaded_path is NULL, unlink the final name; ENOENT is no
\* error
MetaUnlinkFinal ==
    /\ mpc = "unlink_final"
    /\ mtrace' = Append(mtrace, "unlink_final")
    /\ IF Lstat(mdir, FinalName) = NoFile
       THEN /\ MetaReturn(FinalName, 0)
            /\ UNCHANGED mdir
       ELSE \E ok \in BOOLEAN, e \in Errnos :
              IF ok /\ Lstat(mdir, FinalName).type # "dir"
              THEN /\ mdir' = MetaUnlink(mdir, FinalName)
                   /\ MetaReturn(FinalName, 0)
              ELSE /\ UNCHANGED mdir
                   /\ MetaReturn(FinalName, -e)
    /\ UNCHANGED <<writer, others, testing, margs, mprev, mres>>

\* lines 299-330: the keyfile with uuid, loaded-path and shadowed-storage,
\* nm_utils_file_set_contents(full_filename, ..., 0600, ...); it replaces the
\* file at the final name atomically or leaves it as it was
MetaSetContents ==
    /\ mpc = "set_contents"
    /\ mtrace' = Append(mtrace, "set_contents_final")
    /\ \E ok \in BOOLEAN, e \in Errnos :
         IF ok /\ Lstat(mdir, FinalName).type # "dir"
         THEN /\ mdir' = MetaPut(mdir, FinalName,
                                 KeyfileRecord(margs.uuid, StoredPath(margs),
                                               margs.shadowed_storage))
              /\ MetaReturn(FinalName, 0)
         ELSE /\ UNCHANGED mdir
              /\ MetaReturn(TmpName, -e)
    /\ UNCHANGED <<writer, others, testing, margs, mprev, mres>>

\* MetaSymlink replacing the final name in place: unlink, then symlink
MetaSymlinkAtFinal ==
    /\ mpc = "symlink"
    /\ mtrace' = mtrace \o <<"unlink_final", "symlink_final">>
    /\ \E ok \in BOOLEAN, e \in Errnos :
         IF ok /\ Lstat(mdir, FinalName).type # "dir"
         THEN /\ mdir' = MetaPut(mdir, FinalName, SymlinkRecord(StoredPath(margs)))
              /\ MetaReturn(FinalName, 0)
         ELSE /\ mdir' = MetaUnlink(mdir, FinalName)
              /\ MetaReturn(FinalName, -e)
    /\ UNCHANGED <<writer, others, testing, margs, mprev, mres>>

\* lines 335-340: symlink(loaded_path, full_filename_tmp); it fails when the
\* temporary name is taken
MetaSymlink ==
    /\ mpc = "symlink"
    /\ mtrace' = Append(mtrace, "symlink_tmp")
    /\ \E ok \in BOOLEAN, e \in Errnos :
         IF ok /\ Lstat(mdir, TmpName) = NoFile
         THEN /\ mdir' = MetaPut(mdir, TmpName, SymlinkRecord(StoredPath(margs)))
              /\ mpc' = "rename"
              /\ UNCHANGED <<mret, mout>>
         ELSE /\ UNCHANGED mdir
              /\ MetaReturn(FinalName, -e)
    /\ UNCHANGED <<writer, others, testing, margs, mprev, mres>>

\* MetaRename without the "(void) unlink(full_filename_tmp)" of the failure
\* branch
MetaRenameKeepsTmp ==
    /\ mpc = "rename"
    /\ \E ok \in BOOLEAN, e \in Errnos :
         IF ok /\ Lstat(mdir, FinalName).type # "dir"
         THEN /\ mdir' = MetaUnlink(MetaPut(mdir, FinalName, mdir[TmpName]), TmpName)
              /\ mtrace' = Append(mtrace, "rename")
              /\ MetaReturn(FinalName, 0)
         ELSE /\ UNCHANGED mdir
              /\ mtrace' = mtrace \o <<"rename", "unlink_tmp">>
              /\ MetaReturn(FinalName, -e)
    /\ UNCHANGED <<writer, others, testing, margs, mprev, mres>>

\* lines 342-351: rename(full_filename_tmp, full_filename); on failure
\* unlink(full_filename_tmp)
MetaRename ==
    /\ mpc = "rename"
    /\ \E ok \in BOOLEAN, e \in Errnos :
         IF ok /\ Lstat(mdir, FinalName).type # "dir"
         THEN /\ mdir' = MetaUnlink(MetaPut(mdir, FinalName, mdir[TmpName]), TmpName)
              /\ mtrace' = Append(mtrace, "rename")
              /\ MetaReturn(FinalName, 0)
         ELSE /\ mdir' = MetaUnlink(mdir, TmpName)
              /\ mtrace' = mtrace \o <<"rename", "unlink_tmp">>
              /\ MetaReturn(FinalName, -e)
    /\ UNCHANGED <<writer, others, testing, margs, mprev, mres>>

\* ------------------------------------------------------------------ sidecar calls
\* a call of nms_keyfile_nmmeta_read(dirname, filename, ...)
MetaRead ==
    /\ mpc = "idle"
    /\ \E name \in FileNames :
         /\ margs' = [op |-> "read", filename |-> name]
         /\ mres' = nms_keyfile_nmmeta_read(mdir, name, testing)
    /\ mpc' = "returned"
    /\ UNCHANGED <<writer, others, testing, mdir, mprev, mret, mout, mtrace>>

\* a call of nms_keyfile_utils_check_file_permissions(filetype, filename,
\* out_st, error)
MetaCheckPermissions ==
    /\ mpc = "idle"
    /\ \E ft \in {"KEYFILE", "NMMETA"},
          name \in {FinalName, TmpName, <<"x">>,
                    nms_keyfile_nmmeta_filename(Uuid2, FALSE)} :
         /\ margs' = [op |-> "check", filetype |-> ft, filename |-> name]
         /\ mres' = nms_keyfile_utils_check_file_permissions(ft, name, mdir, testing)
    /\ mpc' = "returned"
    /\ UNCHANGED <<writer, others, testing, mdir, mprev, mret, mout, mtrace>>

\* the struct stat values handed to the check
Stats ==
    { MkFile(t, u, m, FALSE, <<>>, NoLPath, NoStr) :
        t \in {"reg", "lnk", "dir", "chr"},
        u \in {0, nm_utils_get_nm_uid, 1000},
        m \in {384, 416, 391} }

\* a call of nms_keyfile_utils_check_file_permissions_stat(filetype, st, error)
MetaCheckPermissionsStat ==
    /\ mpc = "idle"
    /\ \E ft \in {"KEYFILE", "NMMETA"}, st \in Stats :
         /\ margs' = [op |-> "check_stat", filetype |-> ft, st |-> st]
         /\ mres' = nms_keyfile_utils_check_file_permissions_stat(ft, st, testing)
    /\ mpc' = "returned"
    /\ UNCHANGED <<writer, others, testing, mdir, mprev, mret, mout, mtrace>>

\* the caller takes the results
MetaFinish ==
    /\ mpc = "returned"
    /\ mpc' = "idle"
    /\ margs' = [op |-> "none"]
    /\ mprev' = NoFile
    /\ mret' = 0
    /\ mout' = NoName
    /\ mres' = [op |-> "none"]
    /\ mtrace' = <<>>
    /\ UNCHANGED <<writer, others, testing, mdir>>

NextMeta ==
    \/ MetaWriteCall
    \/ MetaUnlinkTmp
    \/ MetaUnlinkFinal
    \/ MetaSetContents
    \/ MetaSymlink
    \/ MetaRename
    \/ MetaRead
    \/ MetaCheckPermissions
    \/ MetaCheckPermissionsStat
    \/ MetaFinish

SpecMeta == InitMeta /\ [][NextMeta]_vars

\* ------------------------------------------------------------------ fixup pass
\* _fix_netplan_interface_name(rootdir), followed file by file (variable fpc).
\* A file name of the run-time directory is a stem and a suffix.
FName(stem, ext) == [stem |-> stem, ext |-> ext]

\* glob("<path>/*.nmconnection")
GlobMatches(name) == name.ext = ".nmconnection"

\* the order in which glob() returns names (sorted)
NameOrder == << FName("a", ".nmconnection"), FName("b", ".nmconnection"),
                FName("c", ".nmmeta") >>

\* strings are sequences of characters
Chars(n, c) == [i \in 1..n |-> c]

\* "NM-"
NMPrefix == <<"N", "M", "-">>

\* g_str_has_prefix(str, prefix)
g_str_has_prefix(str, prefix) ==
    /\ Len(str) >= Len(prefix)
    /\ SubSeq(str, 1, Len(prefix)) = prefix

\* the 15 of "strlen (iface) > 15"
MaxIfnameLen == 15

\* the interface names found in the files
Ifaces ==
    { <<"e", "t", "h", "0">>,
      <<>>,
      NMPrefix \o Chars(MaxIfnameLen - 3, "x"),
      NMPrefix \o Chars(MaxIfnameLen - 2, "x"),
      Chars(MaxIfnameLen + 1, "x") }

\* A file: whether GKeyFile can load it, whether group "connection" has the
\* key "interface-name" and its value, and whether the text is the one the
\* generator wrote or the one g_key_file_save_to_file printed.
FileContent(l, h, i, t) == [loadable |-> l, has_iface |-> h, iface |-> i, text |-> t]

\* the files the pass can find
FileContents ==
    { FileContent(TRUE, TRUE, i, "generated") : i \in Ifaces }
    \cup { FileContent(TRUE, FALSE, <<>>, "generated"),
           FileContent(FALSE, FALSE, <<>>, "generated") }

\* the states of the run-time directory before the first pass
InitialRunDirs ==
    { d \in UNION { [ns -> FileContents] : ns \in SUBSET {NameOrder[1], NameOrder[2]} } : TRUE }
    \cup
    { [n \in (DOMAIN d) \cup {NameOrder[3]} |->
          IF n = NameOrder[3]
          THEN FileContent(TRUE, TRUE, NMPrefix \o Chars(MaxIfnameLen - 2, "x"), "generated")
          ELSE d[n]] :
      d \in UNION { [ns -> FileContents] : ns \in SUBSET {NameOrder[1], NameOrder[2]} } }

\* the umask the daemon runs with: 0022 or 0077
Umasks == {18, 63}

\* number of passes in one behaviour
MaxPass == 2

InitFix ==
    /\ keyfile_dir = "etc"
    /\ fs = <<>>
    /\ yaml = <<>>
    /\ WriterIdle
    /\ testing = FALSE
    /\ mdir = <<>>
    /\ MetaIdle
    /\ rundir \in InitialRunDirs
    /\ umask \in Umasks
    /\ npass = 0
    /\ FixIdle
    /\ fhist = <<>>
    /\ CertOff
    /\ VpnOff
    /\ TcOff

\* gl.gl_pathv after glob(rglob, GLOB_BRACE, NULL, &gl)
GlobSorted(d) ==
    SelectSeq(NameOrder, LAMBDA n : n \in DOMAIN d /\ GlobMatches(n))

\* g_key_file_load_from_file (result ignored) and g_key_file_get_string:
\* the value of connection.interface-name, has |-> FALSE standing for NULL
GetIface(c) ==
    IF c.loadable /\ c.has_iface
    THEN [has |-> TRUE, str |-> c.iface]
    ELSE [has |-> FALSE, str |-> <<>>]

\* LooksGenerated without the length test
LooksGeneratedByPrefix(v) ==
    /\ v.has
    /\ g_str_has_prefix(v.str, NMPrefix)

\* "iface && g_str_has_prefix (iface, "NM-") && strlen (iface) > 15"
LooksGenerated(v) ==
    /\ v.has
    /\ g_str_has_prefix(v.str, NMPrefix)
    /\ Len(v.str) > MaxIfnameLen

\* a mutant of Rewritten: the key is not removed
RewrittenKeepsKey(c) ==
    FileContent(TRUE, c.has_iface, c.iface, "saved")

\* g_key_file_remove_key and g_key_file_save_to_file: what the file holds
\* after a successful save
Rewritten(c) ==
    FileContent(TRUE, FALSE, <<>>, "saved")

\* the call
FixCall ==
    /\ fpc = "idle"
    /\ npass < MaxPass
    /\ npass' = npass + 1
    /\ fpc' = "glob"
    /\ fbefore' = [dir |-> rundir, umask |-> umask]
    /\ UNCHANGED <<exceptFix, rundir, umask, gl, fi, orig_umask, fret, fsaved, fhist>>

\* rc = glob(...); a result other than 0 and GLOB_NOMATCH returns FALSE
FixGlob ==
    /\ fpc = "glob"
    /\ \E rc \in {"ok", "GLOB_NOSPACE"} :
          IF rc = "ok"
          THEN /\ gl' = GlobSorted(rundir)
               /\ fi' = 1
               /\ fpc' = "loop"
               /\ fret' = fret
          ELSE /\ fret' = "FALSE"
               /\ fpc' = "returned"
               /\ UNCHANGED <<gl, fi>>
    /\ UNCHANGED <<exceptFix, rundir, umask, npass, orig_umask, fsaved, fbefore, fhist>>

\* one turn of the loop over gl.gl_pathv
FixFile ==
    /\ fpc = "loop"
    /\ fi <= Len(gl)
    /\ LET name == gl[fi]
           iface == GetIface(rundir[name])
       IN  IF LooksGenerated(iface)
           THEN \E saved \in BOOLEAN :
                  /\ orig_umask' = umask
                  /\ IF saved
                     THEN \* the file is written under umask 077, then
                          \* umask(orig_umask)
                          /\ rundir' = [rundir EXCEPT ![name] = Rewritten(@)]
                          /\ fsaved' = fsaved \cup {name}
                          /\ umask' = umask
                          /\ fi' = fi + 1
                          /\ UNCHANGED <<fpc, fret>>
                     ELSE \* "failed to write updated keyfile": return FALSE
                          /\ umask' = 63
                          /\ fret' = "FALSE"
                          /\ fpc' = "returned"
                          /\ UNCHANGED <<rundir, fsaved, fi>>
           ELSE /\ fi' = fi + 1
                /\ UNCHANGED <<rundir, umask, orig_umask, fret, fsaved, fpc>>
    /\ UNCHANGED <<exceptFix, npass, gl, fbefore, fhist>>

\* globfree(&gl); return TRUE
FixReturn ==
    /\ fpc = "loop"
    /\ fi > Len(gl)
    /\ fret' = "TRUE"
    /\ fpc' = "returned"
    /\ UNCHANGED <<exceptFix, rundir, umask, npass, gl, fi, orig_umask, fsaved, fbefore, fhist>>

\* the caller goes on: the pass is recorded
FixFinish ==
    /\ fpc = "returned"
    /\ fhist' = Append(fhist, [ret |-> fret, saved |-> fsaved, before |-> fbefore,
                               dir |-> rundir, umask |-> umask])
    /\ fpc' = "idle"
    /\ gl' = <<>>
    /\ fi' = 0
    /\ orig_umask' = UnsetUmask
    /\ fret' = "none"
    /\ fsaved' = {}
    /\ fbefore' = NoSnapshot
    /\ UNCHANGED <<exceptFix, rundir, umask, npass>>

NextFix == FixCall \/ FixGlob \/ FixFile \/ FixReturn \/ FixFinish

SpecFix == InitFix /\ [][NextFix]_vars

\* ------------------------------------------------------------------ certificates
\* cert_writer() and the loop of the serializer that calls it through
\* _handler_write.  Strings are sequences of characters, blobs sequences of
\* bytes.

\* info->keyfile_dir
CertDir == <<"/", "k">>

\* NM_KEYFILE_CERT_SCHEME_PREFIX_PATH
NM_KEYFILE_CERT_SCHEME_PREFIX_PATH == <<"f", "i", "l", "e", ":", "/", "/">>

\* the certificate fields (vtable->setting_key, also vtable->file_suffix) in
\* the order the serializer visits them; private-key has a format_func
CertFields == << <<"c", "a", "-", "c", "e", "r", "t">>, <<"p", "r", "i", "v", "a", "t", "e", "-", "k", "e", "y">> >>

HasFormatFunc(field) == field = <<"p", "r", "i", "v", "a", "t", "e", "-", "k", "e", "y">>

\* the file name extensions the reader takes for a certificate
CertExts == { <<".", "p", "e", "m">>, <<".", "d", "e", "r">>, <<".", "p", "1", "2">>, <<".", "c", "r", "t">>, <<".", "k", "e", "y">> }

HasSuffix(str, suffix) ==
    /\ Len(str) >= Len(suffix)
    /\ SubSeq(str, Len(str) - Len(suffix) + 1, Len(str)) = suffix

\* nm_keyfile_detect_unqualified_path_scheme(base_dir, data, -1, FALSE, NULL):
\* whether the reader takes the bare string for a path (TRUE stands for the
\* non-NULL result); a string without '/' and without a certificate
\* extension is left to the other encodings (the strings of the model are
\* valid UTF-8 and short)
nm_keyfile_detect_unqualified_path_scheme(data) ==
    /\ Len(data) >= 1
    /\ \/ \E i \in 1..Len(data) : data[i] = "/"
       \/ \E e \in CertExts : HasSuffix(data, e)

\* "while (*p == '/') p++": str from the first character after position i
\* that is not '/'
RECURSIVE SkipSlashes(_, _)
SkipSlashes(str, i) ==
    IF i <= Len(str) /\ str[i] = "/" THEN SkipSlashes(str, i + 1)
    ELSE SubSeq(str, i, Len(str))

\* AcceptedPath taking the remainder without asking the detection
AcceptedPathTrustsRemainder(cpath) ==
    LET n == Len(CertDir)
        p == SkipSlashes(cpath, n + 1)
        relative ==
            /\ g_str_has_prefix(cpath, CertDir)
            /\ Len(cpath) > n
            /\ cpath[n + 1] = "/"
            /\ p # <<>>
    IN  IF relative THEN p
        ELSE IF nm_keyfile_detect_unqualified_path_scheme(cpath) THEN cpath
        ELSE NM_KEYFILE_CERT_SCHEME_PREFIX_PATH \o cpath

\* the string written for a certificate of scheme PATH
AcceptedPath(cpath) ==
    LET n == Len(CertDir)
        p == SkipSlashes(cpath, n + 1)
        relative ==
            /\ g_str_has_prefix(cpath, CertDir)
            /\ Len(cpath) > n
            /\ cpath[n + 1] = "/"
            /\ p # <<>>
            /\ nm_keyfile_detect_unqualified_path_scheme(p)
    IN  IF relative THEN p
        ELSE IF nm_keyfile_detect_unqualified_path_scheme(cpath) THEN cpath
        ELSE NM_KEYFILE_CERT_SCHEME_PREFIX_PATH \o cpath

\* values of the setting
PathCert(cpath) == [scheme |-> "PATH", str |-> cpath, blob |-> <<>>, format |-> "none"]
UriCert(uri) == [scheme |-> "PKCS11", str |-> uri, blob |-> <<>>, format |-> "none"]
BlobCert(blob, format) == [scheme |-> "BLOB", str |-> <<>>, blob |-> blob, format |-> format]

\* "blob_len > 2 && blob_data[0] == 0x30 && blob_data[1] == 0x82"
IsDer(blob) == Len(blob) > 2 /\ blob[1] = 48 /\ blob[2] = 130

\* CertExt looking at the first bytes also when the field has a format_func
CertExtMagicForAllFields(field, v) ==
    IF HasFormatFunc(field) /\ v.format = "PKCS12" THEN <<"p", "1", "2">>
    ELSE IF IsDer(v.blob) THEN <<"d", "e", "r">> ELSE <<"p", "e", "m">>

\* ext
CertExt(field, v) ==
    IF HasFormatFunc(field)
    THEN IF v.format = "PKCS12" THEN <<"p", "1", "2">> ELSE <<"p", "e", "m">>
    ELSE IF IsDer(v.blob) THEN <<"d", "e", "r">> ELSE <<"p", "e", "m">>

\* g_strdup_printf("%s/%s-%s.%s", keyfile_dir, uuid, file_suffix, ext)
NewPath(uuid, field, v) ==
    CertDir \o <<"/">> \o uuid \o <<"-">> \o field \o <<".">> \o CertExt(field, v)

\* strrchr(new_path, '/') + 1
Basename(cpath) == SubSeq(cpath, LastSlash(cpath) + 1, Len(cpath))

\* nm_keyfile_plugin_kf_set_string(file, setting_name, key, value)
KfSet(kf, key, value) ==
    [k \in (DOMAIN kf) \cup {key} |-> IF k = key THEN value ELSE kf[k]]

\* nm_utils_file_set_contents(new_path, blob_data, blob_len, 0600, ...)
CertSetContents(files, name, blob) ==
    [n \in (DOMAIN files) \cup {name} |-> IF n = name THEN blob ELSE files[n]]

\* a mutant of cert_writer: the error of the blob write is handed to the
\* serializer
CertWriterPropagates(uuid, kf, files, field, v, written) ==
    IF v.scheme = "PATH"
    THEN [kf |-> KfSet(kf, field, AcceptedPath(v.str)), files |-> files,
          error |-> "", warned |-> FALSE]
    ELSE IF v.scheme = "PKCS11"
    THEN [kf |-> KfSet(kf, field, v.str), files |-> files,
          error |-> "", warned |-> FALSE]
    ELSE IF written
         THEN [kf |-> KfSet(kf, field, Basename(NewPath(uuid, field, v))),
               files |-> CertSetContents(files, NewPath(uuid, field, v), v.blob),
               error |-> "", warned |-> FALSE]
         ELSE [kf |-> kf, files |-> files, error |-> "blob", warned |-> TRUE]

\* cert_writer(connection, file, setting, vtable, info, error); written is
\* the result of nm_utils_file_set_contents
cert_writer(uuid, kf, files, field, v, written) ==
    IF v.scheme = "PATH"
    THEN [kf |-> KfSet(kf, field, AcceptedPath(v.str)), files |-> files,
          error |-> "", warned |-> FALSE]
    ELSE IF v.scheme = "PKCS11"
    THEN [kf |-> KfSet(kf, field, v.str), files |-> files,
          error |-> "", warned |-> FALSE]
    ELSE IF written
         THEN [kf |-> KfSet(kf, field, Basename(NewPath(uuid, field, v))),
               files |-> CertSetContents(files, NewPath(uuid, field, v), v.blob),
               error |-> "", warned |-> FALSE]
         ELSE [kf |-> kf, files |-> files, error |-> "", warned |-> TRUE]

\* the paths, URIs and blobs the setting can hold
CertPaths ==
    { <<"/", "k", "/", "c", ".", "p", "e", "m">>, <<"/", "k", "/", "/", "c", ".", "p", "e", "m">>, <<"/", "k", "/", "1", ";", "2">>, <<"/", "k", "x", "/", "c", ".", "p", "e", "m">>, <<"/", "k", "/">>, <<"/", "k">>, <<"/", "o", "/", "c", ".", "p", "e", "m">>, <<"c", ".", "p", "e", "m">>, <<"1", ";", "2">> }

CertBlobs == { <<48, 130, 1>>, <<48, 130>>, <<45, 45, 45>>, <<>> }

CertValues(field) ==
    { PathCert(p) : p \in CertPaths }
    \cup { UriCert(<<"p", "k", "c", "s", "1", "1", ":", "t">>) }
    \cup IF HasFormatFunc(field)
         THEN { BlobCert(b, f) : b \in {<<48, 130, 1>>, <<45, 45, 45>>}, f \in {"PKCS12", "RAW"} }
         ELSE { BlobCert(b, "none") : b \in CertBlobs }

\* the settings: each certificate field is unset or holds a value
CertSettings ==
    UNION { { st \in [fields -> UNION {CertValues(f) : f \in fields}] :
                \A f \in fields : st[f] \in CertValues(f) } :
            fields \in SUBSET {CertFields[1], CertFields[2]} }

InitCert ==
    /\ keyfile_dir = "etc"
    /\ fs = <<>>
    /\ yaml = <<>>
    /\ WriterIdle
    /\ testing = FALSE
    /\ mdir = <<>>
    /\ MetaIdle
    /\ FixOff
    /\ csetting \in CertSettings
    /\ cfiles = <<>>
    /\ CertIdle
    /\ VpnOff
    /\ TcOff

\* the serializer is called; a profile that does not verify is refused
\* before any field is written
CertCall ==
    /\ cpc = "idle"
    /\ \E verified \in BOOLEAN :
          IF verified
          THEN /\ ctodo' = SelectSeq(CertFields, LAMBDA f : f \in DOMAIN csetting)
               /\ cpc' = "loop"
               /\ UNCHANGED <<cerror, cret>>
          ELSE /\ cerror' = "verify"
               /\ cret' = "NULL"
               /\ cpc' = "returned"
               /\ ctodo' = ctodo
    /\ UNCHANGED <<exceptCert, csetting, cfiles, ckf, clog>>

\* _handler_write for the next certificate field; the serializer stops when
\* the handler has set the error
CertWrite ==
    /\ cpc = "loop"
    /\ ctodo # <<>>
    /\ \E written \in BOOLEAN :
          LET field == Head(ctodo)
              r == cert_writer(Uuid1, ckf, cfiles, field, csetting[field], written)
          IN  /\ csetting[field].scheme = "BLOB" \/ written
              /\ ckf' = r.kf
              /\ cfiles' = r.files
              /\ cerror' = r.error
              /\ clog' = IF r.warned THEN clog \cup {field} ELSE clog
              /\ ctodo' = Tail(ctodo)
              /\ IF r.error # ""
                 THEN cpc' = "returned" /\ cret' = "NULL"
                 ELSE UNCHANGED <<cpc, cret>>
    /\ UNCHANGED <<exceptCert, csetting>>

\* every field is written: the serializer returns the GKeyFile
CertReturn ==
    /\ cpc = "loop"
    /\ ctodo = <<>>
    /\ cret' = "keyfile"
    /\ cpc' = "returned"
    /\ UNCHANGED <<exceptCert, csetting, cfiles, ckf, cerror, clog, ctodo>>

\* the caller goes on; the files stay
CertFinish ==
    /\ cpc = "returned"
    /\ ckf' = <<>>
    /\ cerror' = ""
    /\ clog' = {}
    /\ ctodo' = <<>>
    /\ cpc' = "idle"
    /\ cret' = "none"
    /\ UNCHANGED <<exceptCert, csetting, cfiles>>

NextCert == CertCall \/ CertWrite \/ CertReturn \/ CertFinish

SpecCert == InitCert /\ [][NextCert]_vars

\* ------------------------------------------------------------------ VPN setting
\* The data items and the secrets of NMSettingVpn: two string tables.  A
\* table that was never created (NULL) is the empty table: every access goes
\* through the NULL-safe nm_g_hash_table_* functions or _ensure_strdict.

\* the keys in the order of strcmp (nm_strdict_get_keys(hash, TRUE, &len))
VpnKeyOrder == <<"a", "b", "c">>

VpnKeys == {VpnKeyOrder[i] : i \in 1..Len(VpnKeyOrder)}

\* the strings passed as item / secret; NoStr is NULL
VpnItems == {"", "x"}

\* the strings passed as key: NULL and "" are refused by g_return_if_fail
VpnKeyArgs == {NoStr, ""} \cup VpnKeys

\* "key && key[0]"
VpnKeyOk(key) == key # NoStr /\ key # ""

\* nm_g_hash_table_size
nm_g_hash_table_size(t) == Cardinality(DOMAIN t)

\* nm_g_hash_table_lookup: NoStr when the key is not in the table
nm_g_hash_table_lookup(t, key) == IF key \in DOMAIN t THEN t[key] ELSE NoStr

\* nm_strdict_get_keys(hash, TRUE, &len)
nm_strdict_get_keys(t) == SelectSeq(VpnKeyOrder, LAMBDA k : k \in DOMAIN t)

\* the result of a call: the table, the return value, whether the property
\* was notified
VpnResult(t, r, n) == [t |-> t, ret |-> r, notified |-> n]

\* nm_setting_vpn_remove_data_item / nm_setting_vpn_remove_secret
nm_setting_vpn_remove_item(t, key) ==
    IF VpnKeyOk(key) /\ key \in DOMAIN t
    THEN VpnResult([k \in (DOMAIN t) \ {key} |-> t[k]], TRUE, TRUE)
    ELSE VpnResult(t, FALSE, FALSE)

\* a mutant of nm_setting_vpn_add_item: NULL is stored as the empty string
VpnAddItemStoresNull(t, key, item) ==
    IF ~VpnKeyOk(key) THEN VpnResult(t, FALSE, FALSE)
    ELSE VpnResult([k \in (DOMAIN t) \cup {key} |->
                        IF k = key THEN (IF item = NoStr THEN "" ELSE item) ELSE t[k]],
                   FALSE, TRUE)

\* nm_setting_vpn_add_data_item / nm_setting_vpn_add_secret (void: ret is
\* FALSE)
nm_setting_vpn_add_item(t, key, item) ==
    IF item = NoStr
    THEN VpnResult(nm_setting_vpn_remove_item(t, key).t, FALSE,
                   nm_setting_vpn_remove_item(t, key).notified)
    ELSE IF ~VpnKeyOk(key) THEN VpnResult(t, FALSE, FALSE)
    ELSE VpnResult([k \in (DOMAIN t) \cup {key} |-> IF k = key THEN item ELSE t[k]],
                   FALSE, TRUE)

\* the tables a setting can start with
VpnTables == UNION { [ks -> VpnItems] : ks \in SUBSET VpnKeys }

InitVpn ==
    /\ keyfile_dir = "etc"
    /\ fs = <<>>
    /\ yaml = <<>>
    /\ WriterIdle
    /\ testing = FALSE
    /\ mdir = <<>>
    /\ MetaIdle
    /\ FixOff
    /\ CertOff
    /\ vdata \in VpnTables
    /\ vsecrets \in {<<>>, [k \in {"a", "b"} |-> "x"]}
    /\ VpnIdle
    /\ vop = NoOp
    /\ TcOff

\* nm_setting_vpn_add_data_item(setting, key, item)
VpnAddDataItem ==
    /\ vpc = "idle"
    /\ \E key \in VpnKeyArgs, item \in VpnItems \cup {NoStr} :
          LET r == nm_setting_vpn_add_item(vdata, key, item) IN
          /\ vdata' = r.t
          /\ vop' = [op |-> "add_data_item", key |-> key, item |-> item, ret |-> r.ret,
                     before |-> vdata, notified |-> r.notified]
    /\ UNCHANGED <<exceptVpn, vsecrets, vpc, vtable, vkeys, vstart, vi, vvisits>>

\* nm_setting_vpn_remove_data_item(setting, key)
VpnRemoveDataItem ==
    /\ vpc = "idle"
    /\ \E key \in VpnKeyArgs :
          LET r == nm_setting_vpn_remove_item(vdata, key) IN
          /\ vdata' = r.t
          /\ vop' = [op |-> "remove_data_item", key |-> key, item |-> NoStr, ret |-> r.ret,
                     before |-> vdata, notified |-> r.notified]
    /\ UNCHANGED <<exceptVpn, vsecrets, vpc, vtable, vkeys, vstart, vi, vvisits>>

\* nm_setting_vpn_add_secret(setting, key, secret)
VpnAddSecret ==
    /\ vpc = "idle"
    /\ \E key \in VpnKeyArgs, item \in VpnItems \cup {NoStr} :
          LET r == nm_setting_vpn_add_item(vsecrets, key, item) IN
          /\ vsecrets' = r.t
          /\ vop' = [op |-> "add_secret", key |-> key, item |-> item, ret |-> r.ret,
                     before |-> vsecrets, notified |-> r.notified]
    /\ UNCHANGED <<exceptVpn, vdata, vpc, vtable, vkeys, vstart, vi, vvisits>>

\* nm_setting_vpn_remove_secret(setting, key)
VpnRemoveSecret ==
    /\ vpc = "idle"
    /\ \E key \in VpnKeyArgs :
          LET r == nm_setting_vpn_remove_item(vsecrets, key) IN
          /\ vsecrets' = r.t
          /\ vop' = [op |-> "remove_secret", key |-> key, item |-> NoStr, ret |-> r.ret,
                     before |-> vsecrets, notified |-> r.notified]
    /\ UNCHANGED <<exceptVpn, vdata, vpc, vtable, vkeys, vstart, vi, vvisits>>

\* the table foreach_item_helper was given
VpnTable(which) == IF which = "data" THEN vdata ELSE vsecrets

\* nm_setting_vpn_foreach_data_item / nm_setting_vpn_foreach_secret up to the
\* loop: keys is a copy of the sorted keys; "if (len == 0u) return"
VpnForeach ==
    /\ vpc = "idle"
    /\ \E which \in {"data", "secrets"} :
          /\ vtable' = which
          /\ vkeys' = nm_strdict_get_keys(VpnTable(which))
          /\ vstart' = VpnTable(which)
          /\ vi' = 1
          /\ vpc' = IF nm_g_hash_table_size(VpnTable(which)) = 0 THEN "done" ELSE "iter"
    /\ vvisits' = <<>>
    /\ vop' = NoOp
    /\ UNCHANGED <<exceptVpn, vdata, vsecrets>>

\* what func does to the table it is called for: nothing, or one call of
\* add or remove
FuncEffects(t) ==
    {t} \cup { nm_setting_vpn_add_item(t, k, "x").t : k \in VpnKeys }
        \cup { nm_setting_vpn_remove_item(t, k).t : k \in VpnKeys }

\* a mutant of VpnFunc: a key that is no longer in the table is skipped
VpnFuncSkipsRemoved ==
    /\ vpc = "iter"
    /\ vi <= Len(vkeys)
    /\ LET t == VpnTable(vtable)
           key == vkeys[vi]
       IN  /\ vvisits' = IF key \in DOMAIN t
                         THEN Append(vvisits, [key |-> key,
                                               value |-> nm_g_hash_table_lookup(t, key),
                                               present |-> key \in DOMAIN t])
                         ELSE vvisits
           /\ \E t2 \in FuncEffects(t) :
                 IF vtable = "data"
                 THEN vdata' = t2 /\ vsecrets' = vsecrets
                 ELSE vsecrets' = t2 /\ vdata' = vdata
    /\ vi' = vi + 1
    /\ UNCHANGED <<exceptVpn, vpc, vtable, vkeys, vstart, vop>>

\* one turn of the loop: func(keys[i], nm_g_hash_table_lookup(*p_hash,
\* keys[i]), user_data), and what func does to the table
VpnFunc ==
    /\ vpc = "iter"
    /\ vi <= Len(vkeys)
    /\ LET t == VpnTable(vtable)
           key == vkeys[vi]
       IN  /\ vvisits' = Append(vvisits, [key |-> key,
                                          value |-> nm_g_hash_table_lookup(t, key),
                                          present |-> key \in DOMAIN t])
           /\ \E t2 \in FuncEffects(t) :
                 IF vtable = "data"
                 THEN vdata' = t2 /\ vsecrets' = vsecrets
                 ELSE vsecrets' = t2 /\ vdata' = vdata
    /\ vi' = vi + 1
    /\ UNCHANGED <<exceptVpn, vpc, vtable, vkeys, vstart, vop>>

\* the loop has ended
VpnForeachReturn ==
    /\ vpc = "iter"
    /\ vi > Len(vkeys)
    /\ vpc' = "done"
    /\ UNCHANGED <<exceptVpn, vdata, vsecrets, vtable, vkeys, vstart, vi, vvisits, vop>>

\* the caller goes on
VpnFinish ==
    /\ vpc = "done"
    /\ vpc' = "idle"
    /\ vtable' = "none"
    /\ vkeys' = <<>>
    /\ vstart' = <<>>
    /\ vi' = 0
    /\ vvisits' = <<>>
    /\ UNCHANGED <<exceptVpn, vdata, vsecrets, vop>>

NextVpn ==
    \/ VpnAddDataItem
    \/ VpnRemoveDataItem
    \/ VpnAddSecret
    \/ VpnRemoveSecret
    \/ VpnForeach
    \/ VpnFunc
    \/ VpnForeachReturn
    \/ VpnFinish

SpecVpn == InitVpn /\ [][NextVpn]_vars

\* ------------------------------------------------------------------ VPN secrets
\* The secrets of NMSettingVpn as the settings machinery uses them:
\* update_one_secret, get_secret_flags, set_secret_flags, clear_secrets.

\* nm_construct_name_a("%s-flags", secret_name, ...)
FlagsKey(secret_name) == secret_name \o "-flags"

\* the decimal numerals of the numbers 0 .. 9
Numerals == <<"0", "1", "2", "3", "4", "5", "6", "7", "8", "9">>

\* g_strdup_printf("%u", flags), for the flags of the model
FormatFlags(flags) == Numerals[flags + 1]

\* _nm_utils_ascii_str_to_int64(str, 10, min, max, fallback): the number a
\* decimal numeral stands for when it lies in min .. max, else fallback
nm_utils_ascii_str_to_int64(str, min, max, fallback) ==
    LET ns == {n \in 0..9 : Numerals[n + 1] = str /\ n >= min /\ n <= max}
    IN  IF ns = {} THEN fallback ELSE CHOOSE n \in ns : TRUE

\* update_secret_string(setting, key, value, error)
update_secret_string(t, key, value) ==
    IF ~VpnKeyOk(key) \/ value = NoStr THEN [t |-> t, ret |-> "ERROR"]
    ELSE IF nm_g_hash_table_lookup(t, key) = value
    THEN [t |-> t, ret |-> "SUCCESS_UNCHANGED"]
    ELSE [t |-> [k \in (DOMAIN t) \cup {key} |-> IF k = key THEN value ELSE t[k]],
          ret |-> "SUCCESS_MODIFIED"]

\* the second loop of update_secret_dict over the entries from index i on
RECURSIVE UpdateEntries(_, _, _, _)
UpdateEntries(t, entries, i, result) ==
    IF i > Len(entries) THEN [t |-> t, ret |-> result]
    ELSE LET name == entries[i][1]
             value == entries[i][2]
         IN  IF nm_g_hash_table_lookup(t, name) = value
             THEN UpdateEntries(t, entries, i + 1, result)
             ELSE UpdateEntries([k \in (DOMAIN t) \cup {name} |->
                                    IF k = name THEN value ELSE t[k]],
                                entries, i + 1, "SUCCESS_MODIFIED")

\* a mutant of update_secret_dict: the names are tested while the entries
\* are stored
UpdateSecretDictInOnePass(t, entries) ==
    LET bad == {i \in 1..Len(entries) : entries[i][1] = ""}
        first == IF bad = {} THEN Len(entries) + 1
                 ELSE CHOOSE i \in bad : \A j \in bad : i <= j
        r == UpdateEntries(t, SubSeq(entries, 1, first - 1), 1, "SUCCESS_UNCHANGED")
    IN  IF bad = {} THEN r ELSE [t |-> r.t, ret |-> "ERROR"]

\* update_secret_dict(setting, secrets, error); entries is the a{ss} value
\* as the iterator yields it
update_secret_dict(t, entries) ==
    IF \E i \in 1..Len(entries) : entries[i][1] = ""
    THEN [t |-> t, ret |-> "ERROR"]
    ELSE UpdateEntries(t, entries, 1, "SUCCESS_UNCHANGED")

\* NM_SETTING_VPN_SECRETS
NM_SETTING_VPN_SECRETS == "secrets"

\* update_one_secret(setting, key, value, error); value is a GVariant of
\* type "s", "a{ss}" or something else
update_one_secret(t, key, value) ==
    LET r == IF value.type = "s" THEN update_secret_string(t, key, value.str)
             ELSE IF value.type = "a{ss}"
             THEN (IF key # NM_SETTING_VPN_SECRETS THEN [t |-> t, ret |-> "ERROR"]
                   ELSE update_secret_dict(t, value.entries))
             ELSE [t |-> t, ret |-> "ERROR"]
    IN  VpnResult(r.t, r.ret, r.ret = "SUCCESS_MODIFIED")

\* NM_SETTING_SECRET_FLAG_ALL
NM_SETTING_SECRET_FLAG_ALL == 7

\* a mutant of get_secret_flags: without a flags item the secret is not
\* looked for
GetSecretFlagsWithoutSecret(data, secrets, secret_name) ==
    IF secret_name = "" THEN [ret |-> FALSE, out_flags |-> -1]
    ELSE IF FlagsKey(secret_name) \notin DOMAIN data
    THEN [ret |-> TRUE, out_flags |-> 0]
    ELSE LET i64 == nm_utils_ascii_str_to_int64(data[FlagsKey(secret_name)], 0,
                                                NM_SETTING_SECRET_FLAG_ALL, -1)
         IN  IF i64 = -1 THEN [ret |-> TRUE, out_flags |-> 0]
             ELSE [ret |-> TRUE, out_flags |-> i64]

\* get_secret_flags(setting, secret_name, out_flags, error); out_flags -1:
\* not set
get_secret_flags(data, secrets, secret_name) ==
    IF secret_name = "" THEN [ret |-> FALSE, out_flags |-> -1]
    ELSE IF FlagsKey(secret_name) \notin DOMAIN data
    THEN [ret |-> nm_g_hash_table_lookup(secrets, secret_name) # NoStr, out_flags |-> 0]
    ELSE LET i64 == nm_utils_ascii_str_to_int64(data[FlagsKey(secret_name)], 0,
                                                NM_SETTING_SECRET_FLAG_ALL, -1)
         IN  IF i64 = -1 THEN [ret |-> TRUE, out_flags |-> 0]
             ELSE [ret |-> TRUE, out_flags |-> i64]

\* set_secret_flags(setting, secret_name, flags, error)
set_secret_flags(data, secret_name, flags) ==
    IF secret_name = "" THEN VpnResult(data, FALSE, FALSE)
    ELSE VpnResult([k \in (DOMAIN data) \cup {FlagsKey(secret_name)} |->
                       IF k = FlagsKey(secret_name) THEN FormatFlags(flags) ELSE data[k]],
                   TRUE, TRUE)

\* clear_secrets(sett_info, property_info, setting, func, user_data) for the
\* property "secrets"; created: priv->secrets is not NULL; accepted: the
\* names for which func returns TRUE (every name when func is NULL).
\* "gboolean changed = TRUE;"
clear_secrets(secrets, created, accepted) ==
    IF ~created THEN VpnResult(secrets, FALSE, FALSE)
    ELSE VpnResult([k \in (DOMAIN secrets) \ accepted |-> secrets[k]], TRUE, TRUE)

\* the names and flags passed to the functions; 8 is not a valid flag set
SecretNames == {"", "a"}
FlagArgs == {0, 1, NM_SETTING_SECRET_FLAG_ALL, NM_SETTING_SECRET_FLAG_ALL + 1}

\* the a{ss} values: up to two entries
SecretEntries == {<<n, v>> : n \in {"", "a"}, v \in VpnItems}
SecretDicts == {<<>>} \cup {<<e>> : e \in SecretEntries}
                      \cup {<<e1, e2>> : e1 \in SecretEntries, e2 \in SecretEntries}
SecretVariants ==
    { [type |-> "a{ss}", entries |-> d, str |-> NoStr] : d \in SecretDicts }
    \cup { [type |-> "s", entries |-> <<>>, str |-> "x"],
           [type |-> "u", entries |-> <<>>, str |-> NoStr] }

\* the (key, value) pairs update_one_secret is called with
SecretUpdates ==
    { <<NM_SETTING_VPN_SECRETS, v>> : v \in SecretVariants }
    \cup { <<"a", v>> : v \in {w \in SecretVariants : w.entries = <<>>} }

InitVpnSecrets ==
    /\ keyfile_dir = "etc"
    /\ fs = <<>>
    /\ yaml = <<>>
    /\ WriterIdle
    /\ testing = FALSE
    /\ mdir = <<>>
    /\ MetaIdle
    /\ FixOff
    /\ CertOff
    /\ vdata \in UNION { [ks -> {"x", "2"}] : ks \in SUBSET {FlagsKey("a")} }
    /\ vsecrets \in {<<>>, [k \in {"a"} |-> "x"], [k \in {"a", "b"} |-> "x"]}
    /\ VpnIdle
    /\ vop = NoOp
    /\ TcOff

\* nm_setting_update_secrets reaches update_one_secret
VpnUpdateOneSecret ==
    /\ vpc = "idle"
    /\ \E u \in SecretUpdates :
          LET r == update_one_secret(vsecrets, u[1], u[2]) IN
          /\ vsecrets' = r.t
          /\ vop' = [op |-> "update_one_secret", key |-> u[1], value |-> u[2],
                     ret |-> r.ret, before |-> vsecrets, notified |-> r.notified]
    /\ UNCHANGED <<exceptVpn, vdata, vpc, vtable, vkeys, vstart, vi, vvisits>>

\* nm_setting_set_secret_flags reaches set_secret_flags
VpnSetSecretFlags ==
    /\ vpc = "idle"
    /\ \E name \in SecretNames, flags \in FlagArgs :
          LET r == set_secret_flags(vdata, name, flags) IN
          /\ vdata' = r.t
          /\ vop' = [op |-> "set_secret_flags", key |-> name, flags |-> flags,
                     ret |-> r.ret, before |-> vdata, notified |-> r.notified]
    /\ UNCHANGED <<exceptVpn, vsecrets, vpc, vtable, vkeys, vstart, vi, vvisits>>

\* nm_setting_get_secret_flags reaches get_secret_flags
VpnGetSecretFlags ==
    /\ vpc = "idle"
    /\ \E name \in SecretNames :
          LET r == get_secret_flags(vdata, vsecrets, name) IN
          vop' = [op |-> "get_secret_flags", key |-> name, out_flags |-> r.out_flags,
                  ret |-> r.ret, before |-> vdata, notified |-> FALSE]
    /\ UNCHANGED <<exceptVpn, vdata, vsecrets, vpc, vtable, vkeys, vstart, vi, vvisits>>

\* nm_setting_clear_secrets reaches clear_secrets; an empty table is one
\* that was never created or one whose entries were removed
VpnClearSecrets ==
    /\ vpc = "idle"
    /\ \E created \in BOOLEAN, accepted \in SUBSET VpnKeys :
          LET r == clear_secrets(vsecrets, created, accepted) IN
          /\ (~created => vsecrets = <<>>)
          /\ vsecrets' = r.t
          /\ vop' = [op |-> "clear_secrets", created |-> created, accepted |-> accepted,
                     ret |-> r.ret, before |-> vsecrets, notified |-> r.notified]
    /\ UNCHANGED <<exceptVpn, vdata, vpc, vtable, vkeys, vstart, vi, vvisits>>

NextVpnSecrets ==
    \/ VpnAddSecret
    \/ VpnRemoveSecret
    \/ VpnUpdateOneSecret
    \/ VpnSetSecretFlags
    \/ VpnGetSecretFlags
    \/ VpnClearSecrets

SpecVpnSecrets == InitVpnSecrets /\ [][NextVpnSecrets]_vars

\* ------------------------------------------------------------------ traffic control
\* NMSettingTCConfig with its two lists, and the NMTCQdisc, NMTCTfilter and
\* NMTCAction objects the caller builds.  The objects of the lists are
\* records (each list element is an object of its own, made by
\* nm_tc_qdisc_dup or nm_tc_tfilter_dup); an action is held by reference,
\* so it has an identity.  The two lists are independent of each other (only
\* verify reads both): a behaviour works on one of them.

\* number of elements a list can take: a call that would add one more is
\* not made
MaxList == 2

\* the kind and parent the caller creates a qdisc or a tfilter with
\* (nm_tc_qdisc_new and nm_tc_tfilter_new refuse an empty kind and the
\* parent 0), and the kinds of the actions
QdiscNewArgs == { <<"fq_codel", 1>>, <<"sfq", 1>>, <<"fq_codel", 2>> }
TfilterNewArgs == { <<"matchall", 1>> }
ActionKinds == {"drop", "mirred"}
TcHandles == {0, 1}

\* the attribute the caller sets or clears, the values it sets
TcAttrName == "limit"
TcAttrValues == {7}

\* the identities of the actions
ActionIds == {1, 2}

\* g_hash_table_insert(attributes, name, value) / g_hash_table_remove:
\* nm_tc_qdisc_set_attribute and nm_tc_action_set_attribute, value 0
\* standing for NULL
SetAttribute(attrs, name, value) ==
    IF value # 0
    THEN [n \in (DOMAIN attrs) \cup {name} |-> IF n = name THEN value ELSE attrs[n]]
    ELSE [n \in (DOMAIN attrs) \ {name} |-> attrs[n]]

\* the comparison of two attribute tables in nm_tc_qdisc_equal and
\* nm_tc_action_equal: same size, and every key of the first is in the
\* second with an equal value
AttributesEqual(a, b) ==
    /\ Cardinality(DOMAIN a) = Cardinality(DOMAIN b)
    /\ \A n \in DOMAIN a : n \in DOMAIN b /\ a[n] = b[n]

nm_tc_qdisc_equal(qdisc, other) ==
    /\ qdisc.handle = other.handle
    /\ qdisc.parent = other.parent
    /\ qdisc.kind = other.kind
    /\ AttributesEqual(qdisc.attributes, other.attributes)

\* nm_tc_action_equal on two identities: the same object, or two objects
\* with equal kind and attributes
nm_tc_action_equal(actions, a, b) ==
    IF a = b THEN TRUE
    ELSE IF a = 0 \/ b = 0 THEN FALSE
    ELSE /\ actions[a].kind = actions[b].kind
         /\ AttributesEqual(actions[a].attributes, actions[b].attributes)

nm_tc_tfilter_equal(actions, tfilter, other) ==
    /\ tfilter.handle = other.handle
    /\ tfilter.parent = other.parent
    /\ tfilter.kind = other.kind
    /\ nm_tc_action_equal(actions, tfilter.action, other.action)

\* nm_tc_qdisc_dup: a new object with the kind, parent and handle of the
\* original and each of its attributes
nm_tc_qdisc_dup(qdisc) ==
    Qdisc(qdisc.kind, qdisc.handle, qdisc.parent,
          [n \in DOMAIN qdisc.attributes |-> qdisc.attributes[n]])

\* nm_tc_tfilter_dup: a new object with the kind, parent and handle of the
\* original; nm_tc_tfilter_set_action(copy, tfilter->action) takes a
\* reference to the action of the original
nm_tc_tfilter_dup(tfilter) ==
    Tfilter(tfilter.kind, tfilter.handle, tfilter.parent, tfilter.action)

\* g_ptr_array_remove_index(array, idx), idx counted from 1
RemoveIndex(list, idx) ==
    SubSeq(list, 1, idx - 1) \o SubSeq(list, idx + 1, Len(list))

\* the first index of the set S of matching indices, 0 when there is none
FirstIndex(S) ==
    IF S = {} THEN 0 ELSE CHOOSE i \in S : \A j \in S : i <= j

\* a mutant of nm_setting_tc_config_add_qdisc: the attributes are not
\* compared
AddQdiscIgnoresAttributes(qdiscs, qdisc) ==
    IF \E i \in 1..Len(qdiscs) :
          /\ qdiscs[i].handle = qdisc.handle
          /\ qdiscs[i].parent = qdisc.parent
          /\ qdiscs[i].kind = qdisc.kind
    THEN [ret |-> FALSE, list |-> qdiscs]
    ELSE [ret |-> TRUE, list |-> Append(qdiscs, nm_tc_qdisc_dup(qdisc))]

nm_setting_tc_config_add_qdisc(qdiscs, qdisc) ==
    IF \E i \in 1..Len(qdiscs) : nm_tc_qdisc_equal(qdiscs[i], qdisc)
    THEN [ret |-> FALSE, list |-> qdiscs]
    ELSE [ret |-> TRUE, list |-> Append(qdiscs, nm_tc_qdisc_dup(qdisc))]

\* nm_setting_tc_config_add_tfilter without the loop over the elements
AddTfilterWithoutLoop(actions, tfilters, tfilter) ==
    [ret |-> TRUE, list |-> Append(tfilters, nm_tc_tfilter_dup(tfilter))]

nm_setting_tc_config_add_tfilter(actions, tfilters, tfilter) ==
    IF \E i \in 1..Len(tfilters) : nm_tc_tfilter_equal(actions, tfilters[i], tfilter)
    THEN [ret |-> FALSE, list |-> tfilters]
    ELSE [ret |-> TRUE, list |-> Append(tfilters, nm_tc_tfilter_dup(tfilter))]

nm_setting_tc_config_remove_qdisc_by_value(qdiscs, qdisc) ==
    LET i == FirstIndex({j \in 1..Len(qdiscs) : nm_tc_qdisc_equal(qdiscs[j], qdisc)}) IN
    IF i = 0 THEN [ret |-> FALSE, list |-> qdiscs]
    ELSE [ret |-> TRUE, list |-> RemoveIndex(qdiscs, i)]

nm_setting_tc_config_remove_tfilter_by_value(actions, tfilters, tfilter) ==
    LET i == FirstIndex({j \in 1..Len(tfilters) :
                             nm_tc_tfilter_equal(actions, tfilters[j], tfilter)}) IN
    IF i = 0 THEN [ret |-> FALSE, list |-> tfilters]
    ELSE [ret |-> TRUE, list |-> RemoveIndex(tfilters, i)]

\* verify(setting, connection, error): TRUE, or the message of the error;
\* g_hash_table_add returns FALSE for an element equal to one added before
verify(actions, qdiscs, tfilters) ==
    IF \E i, j \in 1..Len(qdiscs) : i < j /\ nm_tc_qdisc_equal(qdiscs[j], qdiscs[i])
    THEN "there are duplicate TC qdiscs"
    ELSE IF \E i, j \in 1..Len(tfilters) :
               i < j /\ nm_tc_tfilter_equal(actions, tfilters[j], tfilters[i])
    THEN "there are duplicate TC filters"
    ELSE "TRUE"

InitTc ==
    /\ keyfile_dir = "etc"
    /\ fs = <<>>
    /\ yaml = <<>>
    /\ WriterIdle
    /\ testing = FALSE
    /\ mdir = <<>>
    /\ MetaIdle
    /\ FixOff
    /\ CertOff
    /\ VpnOff
    /\ tside \in {"qdisc", "tfilter"}
    /\ TcNew

\* the call is recorded with the lists and the argument as they were
TcCall(op, r) ==
    tlast' = [op |-> op, ret |-> r, qdiscs |-> tqdiscs, tfilters |-> ttfilters,
              qdisc |-> cq, tfilter |-> cf]

\* the caller: nm_tc_qdisc_new(kind, parent, NULL), dropping the qdisc it held
TcQdiscNew ==
    /\ tside = "qdisc"
    /\ \E a \in QdiscNewArgs : cq' = Qdisc(a[1], 0, a[2], <<>>)
    /\ tlast' = NoTcCall
    /\ UNCHANGED <<exceptTc, tside, tqdiscs, ttfilters, tactions, cf>>

\* the caller: nm_tc_qdisc_set_handle(qdisc, handle)
TcQdiscSetHandle ==
    /\ tside = "qdisc"
    /\ cq # NoQdisc
    /\ \E h \in TcHandles : cq' = [cq EXCEPT !.handle = h]
    /\ tlast' = NoTcCall
    /\ UNCHANGED <<exceptTc, tside, tqdiscs, ttfilters, tactions, cf>>

\* the caller: nm_tc_qdisc_set_attribute(qdisc, name, value)
TcQdiscSetAttribute ==
    /\ tside = "qdisc"
    /\ cq # NoQdisc
    /\ \E v \in TcAttrValues \cup {0} :
          cq' = [cq EXCEPT !.attributes = SetAttribute(@, TcAttrName, v)]
    /\ tlast' = NoTcCall
    /\ UNCHANGED <<exceptTc, tside, tqdiscs, ttfilters, tactions, cf>>

\* the caller: nm_tc_tfilter_new(kind, parent, NULL), dropping the tfilter it
\* held
TcTfilterNew ==
    /\ tside = "tfilter"
    /\ \E a \in TfilterNewArgs : cf' = Tfilter(a[1], 0, a[2], 0)
    /\ tlast' = NoTcCall
    /\ UNCHANGED <<exceptTc, tside, tqdiscs, ttfilters, tactions, cq>>

\* the caller: nm_tc_tfilter_set_handle(tfilter, handle)
TcTfilterSetHandle ==
    /\ tside = "tfilter"
    /\ cf # NoTfilter
    /\ \E h \in TcHandles : cf' = [cf EXCEPT !.handle = h]
    /\ tlast' = NoTcCall
    /\ UNCHANGED <<exceptTc, tside, tqdiscs, ttfilters, tactions, cq>>

\* the caller: nm_tc_action_new(kind, NULL)
TcActionNew ==
    /\ tside = "tfilter"
    /\ \E a \in ActionIds, k \in ActionKinds :
          /\ tactions[a] = NoAction
          /\ tactions' = [tactions EXCEPT ![a] = Action(k, <<>>)]
    /\ tlast' = NoTcCall
    /\ UNCHANGED <<exceptTc, tside, tqdiscs, ttfilters, cq, cf>>

\* the caller: nm_tc_action_set_attribute(action, name, value)
TcActionSetAttribute ==
    /\ tside = "tfilter"
    /\ \E a \in ActionIds, v \in TcAttrValues \cup {0} :
          /\ tactions[a] # NoAction
          /\ tactions' = [tactions EXCEPT
                             ![a].attributes = SetAttribute(@, TcAttrName, v)]
    /\ tlast' = NoTcCall
    /\ UNCHANGED <<exceptTc, tside, tqdiscs, ttfilters, cq, cf>>

\* the caller: nm_tc_tfilter_set_action(tfilter, action), action NULL or an
\* action it has created
TcTfilterSetAction ==
    /\ tside = "tfilter"
    /\ cf # NoTfilter
    /\ \E a \in ActionIds \cup {0} :
          /\ a # 0 => tactions[a] # NoAction
          /\ cf' = [cf EXCEPT !.action = a]
    /\ tlast' = NoTcCall
    /\ UNCHANGED <<exceptTc, tside, tqdiscs, ttfilters, tactions, cq>>

\* nm_setting_tc_config_add_qdisc(self, qdisc)
TcAddQdisc ==
    /\ tside = "qdisc"
    /\ cq # NoQdisc
    /\ LET r == nm_setting_tc_config_add_qdisc(tqdiscs, cq) IN
       /\ Len(tqdiscs) < MaxList \/ ~r.ret
       /\ tqdiscs' = r.list
       /\ TcCall("add_qdisc", r.ret)
    /\ UNCHANGED <<exceptTc, tside, ttfilters, tactions, cq, cf>>

\* nm_setting_tc_config_remove_qdisc(self, idx)
TcRemoveQdisc ==
    /\ tside = "qdisc"
    /\ \E idx \in 1..Len(tqdiscs) :
          /\ tqdiscs' = RemoveIndex(tqdiscs, idx)
          /\ TcCall("remove_qdisc", TRUE)
    /\ UNCHANGED <<exceptTc, tside, ttfilters, tactions, cq, cf>>

\* nm_setting_tc_config_remove_qdisc_by_value(self, qdisc)
TcRemoveQdiscByValue ==
    /\ tside = "qdisc"
    /\ cq # NoQdisc
    /\ LET r == nm_setting_tc_config_remove_qdisc_by_value(tqdiscs, cq) IN
       /\ tqdiscs' = r.list
       /\ TcCall("remove_qdisc_by_value", r.ret)
    /\ UNCHANGED <<exceptTc, tside, ttfilters, tactions, cq, cf>>

\* nm_setting_tc_config_clear_qdiscs(self)
TcClearQdiscs ==
    /\ tside = "qdisc"
    /\ tqdiscs' = <<>>
    /\ TcCall("clear_qdiscs", tqdiscs # <<>>)
    /\ UNCHANGED <<exceptTc, tside, ttfilters, tactions, cq, cf>>

\* nm_setting_tc_config_add_tfilter(self, tfilter)
TcAddTfilter ==
    /\ tside = "tfilter"
    /\ cf # NoTfilter
    /\ LET r == nm_setting_tc_config_add_tfilter(tactions, ttfilters, cf) IN
       /\ Len(ttfilters) < MaxList \/ ~r.ret
       /\ ttfilters' = r.list
       /\ TcCall("add_tfilter", r.ret)
    /\ UNCHANGED <<exceptTc, tside, tqdiscs, tactions, cq, cf>>

\* nm_setting_tc_config_remove_tfilter(self, idx)
TcRemoveTfilter ==
    /\ tside = "tfilter"
    /\ \E idx \in 1..Len(ttfilters) :
          /\ ttfilters' = RemoveIndex(ttfilters, idx)
          /\ TcCall("remove_tfilter", TRUE)
    /\ UNCHANGED <<exceptTc, tside, tqdiscs, tactions, cq, cf>>

\* nm_setting_tc_config_remove_tfilter_by_value(self, tfilter)
TcRemoveTfilterByValue ==
    /\ tside = "tfilter"
    /\ cf # NoTfilter
    /\ LET r == nm_setting_tc_config_remove_tfilter_by_value(tactions, ttfilters, cf) IN
       /\ ttfilters' = r.list
       /\ TcCall("remove_tfilter_by_value", r.ret)
    /\ UNCHANGED <<exceptTc, tside, tqdiscs, tactions, cq, cf>>

\* nm_setting_tc_config_clear_tfilters(self)
TcClearTfilters ==
    /\ tside = "tfilter"
    /\ ttfilters' = <<>>
    /\ TcCall("clear_tfilters", ttfilters # <<>>)
    /\ UNCHANGED <<exceptTc, tside, tqdiscs, tactions, cq, cf>>

NextTc ==
    \/ TcQdiscNew
    \/ TcQdiscSetHandle
    \/ TcQdiscSetAttribute
    \/ TcTfilterNew
    \/ TcTfilterSetHandle
    \/ TcActionNew
    \/ TcActionSetAttribute
    \/ TcTfilterSetAction
    \/ TcAddQdisc
    \/ TcRemoveQdisc
    \/ TcRemoveQdiscByValue
    \/ TcClearQdiscs
    \/ TcAddTfilter
    \/ TcRemoveTfilter
    \/ TcRemoveTfilterByValue
    \/ TcClearTfilters

SpecTc == InitTc /\ [][NextTc]_vars

\* ------------------------------------------------------------------ properties
\* the label l is in the trace of the call
InTrace(l) == \E i \in DOMAIN trace : trace[i] = l

\* the label a is in the trace and every b of the trace comes after an a
Precedes(a, b) ==
    \A j \in DOMAIN trace : trace[j] = b => \E i \in 1..(j - 1) : trace[i] = a

\* the call returned after nm_utils_file_set_contents succeeded
ContentWritten == InTrace("set_contents") /\ error # "error writing to file"

\* C1: when chown of the just-written file fails, the write returns FALSE and
\* no file is left at the selected path.
C1_ChownFailureLeavesNoFile ==
    (pc = "returned" /\ error = "error chowning")
        => (ret = "FALSE" /\ ~Exists(fs, selected))

\* C1 witness: a chown failure on an in-place update (the selected path is
\* existing_path, which existed when the call started)
C1_Witness ==
    /\ pc = "returned"
    /\ error = "error chowning"
    /\ selected = args.existing_path

\* C2: when the selected path differs from existing_path, the file at
\* existing_path is gone only after set_contents and chown of the new file
\* succeeded; after a failed content write or a failed chown it still exists.
C2_OldFileDeletedOnlyAfterNewWritten ==
    (args.existing_path # NoPath /\ selected # NoPath
        /\ selected # args.existing_path)
    => /\ (~Exists(fs, args.existing_path)
             => /\ InTrace("unlink_existing")
                /\ Precedes("set_contents", "chown")
                /\ Precedes("chown", "unlink_existing")
                /\ error \notin {"error writing to file", "error chowning"})
       /\ (pc = "returned" /\ error \in {"error writing to file", "error chowning"}
             => Exists(fs, args.existing_path))

\* C2 witness: chown failed on a renamed profile and the old file is there
C2_Witness ==
    /\ pc = "returned"
    /\ error = "error chowning"
    /\ args.existing_path # NoPath
    /\ selected # args.existing_path
    /\ Exists(fs, args.existing_path)

\* C3 (as claimed): for a non-volatile profile whose content file was
\* written, no file is at the selected path when the write returns, whatever
\* the projection did.
C3_PlainFileGoneAfterProjection ==
    (pc = "returned" /\ ~args.is_volatile /\ ContentWritten)
        => ~Exists(fs, selected)

\* C4 (as claimed): a write in which a projection step failed returns FALSE.
C4_ProjectionFailureFailsWrite ==
    (pc = "returned" /\ failed # {}) => ret = "FALSE"

\* C5 (as claimed), under SpecSeq: writes without existing_path and callback
\* of profiles with the same id and distinct UUIDs never run out of file
\* names and hand back pairwise distinct paths, volatile or not.
C5_DistinctPathsForDistinctUuids ==
    /\ \A i, j \in DOMAIN hist :
         (i < j /\ hist[i].uuid # hist[j].uuid)
             => hist[i].out_path # hist[j].out_path
    /\ (pc = "returned" /\ \A i \in DOMAIN hist : hist[i].uuid # args.connection.uuid)
         => error # "could not find suitable keyfile file name"

\* the indices of the candidate loop
LoopIndices == (-2)..(MaxIPath - 1)

\* the candidate loop has just ended and the file system is as it saw it
AfterSelection ==
    \/ pc = "reread"
    \/ (pc = "returned" /\ error = "could not find suitable keyfile file name")

\* candidate i is accepted by the callback and is existing_path itself or
\* names no file (the conditions of the claim)
ClaimedAcceptable(i) ==
    LET p == PathCandidate(args, keyfile_dir, i) IN
    /\ p # NoPath
    /\ AllowFilename(args, p)
    /\ (p = args.existing_path \/ ~Exists(fs, p))

\* C6 (as claimed): the selected path is the first candidate of the order
\* that the callback accepts and that is existing_path or names no file.
C6_FirstClaimedCandidate ==
    AfterSelection =>
        IF selected = NoPath
        THEN \A i \in LoopIndices : ~ClaimedAcceptable(i)
        ELSE \E k \in LoopIndices :
               /\ PathCandidate(args, keyfile_dir, k) = selected
               /\ ClaimedAcceptable(k)
               /\ \A j \in LoopIndices : j < k => ~ClaimedAcceptable(j)

\* as ClaimedAcceptable, but existing_path is no candidate while a rename is
\* in force
Acceptable(i) ==
    LET p == PathCandidate(args, keyfile_dir, i) IN
    /\ p # NoPath
    /\ AllowFilename(args, p)
    /\ IF p = args.existing_path
       THEN ~(args.force_rename \/ args.existing_path_read_only
              \/ args.existing_path.dir # keyfile_dir)
       ELSE ~Exists(fs, p)

\* C6 (amended): the selected path is the first candidate of the order that
\* the callback accepts and that either is existing_path with no rename in
\* force, or is not existing_path and names no file; none is selected only
\* when there is no such candidate.
C6_FirstAcceptableCandidate ==
    AfterSelection =>
        IF selected = NoPath
        THEN \A i \in LoopIndices : ~Acceptable(i)
        ELSE \E k \in LoopIndices :
               /\ PathCandidate(args, keyfile_dir, k) = selected
               /\ Acceptable(k)
               /\ \A j \in LoopIndices : j < k => ~Acceptable(j)

\* C6 witness: the loop passed over a refused candidate and one that names a
\* file of another profile, and took a later one
C6_Witness ==
    /\ pc = "reread"
    /\ selected.kind = "iduuid"
    /\ args.allow_filename_cb
    /\ \E i \in LoopIndices :
         LET p == PathCandidate(args, keyfile_dir, i) IN
         p # NoPath /\ p # selected /\ p \in args.rejected
    /\ \E i \in LoopIndices :
         LET p == PathCandidate(args, keyfile_dir, i) IN
         p # NoPath /\ p # args.existing_path /\ Exists(fs, p)

\* C7 (as claimed): with existing_path given, force_rename false and the file
\* not read-only, a callback that does not refuse existing_path makes the
\* writer select existing_path, wherever it is.
C7_ExistingPathReused ==
    (AfterSelection /\ args.existing_path # NoPath /\ ~args.force_rename
        /\ ~args.existing_path_read_only
        /\ AllowFilename(args, args.existing_path))
    => selected = args.existing_path

\* C7 (amended): the same for an existing_path that lies in keyfile_dir.
C7_ExistingPathInDirReused ==
    (AfterSelection /\ args.existing_path # NoPath /\ ~args.force_rename
        /\ ~args.existing_path_read_only
        /\ args.existing_path.dir = keyfile_dir
        /\ AllowFilename(args, args.existing_path))
    => selected = args.existing_path

\* C7 witness: an existing_path in keyfile_dir was selected again although
\* the clean name <keyfile_dir>/<escape(id)> is another, free path
C7_Witness ==
    /\ pc = "reread"
    /\ args.existing_path # NoPath
    /\ ~args.force_rename /\ ~args.existing_path_read_only
    /\ selected = args.existing_path
    /\ selected # PathCandidate(args, keyfile_dir, -1)
    /\ ~Exists(fs, PathCandidate(args, keyfile_dir, -1))

\* C8: when the loop ends with every candidate rejected, the next step is
\* the FALSE return; no content file has been written, no file removed and
\* the netplan store not touched, by this step or before it.
C8_ExhaustionTouchesNothing ==
    [][ (pc = "select" /\ \A i \in LoopIndices : ~Acceptable(i))
          => /\ pc' = "returned"
             /\ ret' = "FALSE"
             /\ error' = "could not find suitable keyfile file name"
             /\ fs' = fs
             /\ yaml' = yaml
             /\ trace' = <<"nm_keyfile_write", "mkdir">> ]_vars

\* C8 witness: the write returned for want of a file name; every candidate
\* was refused by the callback, named a file, or was barred by the rename
C8_Witness ==
    /\ pc = "returned"
    /\ error = "could not find suitable keyfile file name"
    /\ selected = NoPath

C10_OutputsOnlyOnSuccess ==
    ret # "TRUE"
        => /\ out_path = UnsetPath
           /\ out_reread = UnsetReread
           /\ out_reread_same = "unset"

\* C10 witness: a FALSE return at the last step, with the locals path and
\* reread holding values
C10_Witness ==
    /\ pc = "returned"
    /\ ret = "FALSE"
    /\ reread # 0
    /\ path # NoPath
    /\ InTrace("reread_file")

\* C11: a write of a volatile profile makes none of the netplan calls (copy
\* over the prior file, load_keyfile, import, lookup, write_yaml, generate,
\* interface-name fix-up); when it returns TRUE the path handed back is the
\* path the candidate loop selected and the file there holds the content
\* this call wrote.
C11_VolatileNeverProjects ==
    args.is_volatile
      => /\ \A l \in {"g_file_copy", "netplan_parser_load_keyfile",
                       "netplan_state_import_parser_results",
                       "netplan_state_get_netdef", "netplan_netdef_write_yaml",
                       "netplan_generate", "_fix_netplan_interface_name"} :
               ~InTrace(l)
         /\ failed = {}
         /\ (pc = "returned" /\ ret = "TRUE")
               => /\ out_path = selected
                  /\ Exists(fs, out_path)
                  /\ fs[out_path] = Content(args.connection.uuid, nwrites)

\* C11 witness: a volatile profile was moved to a new name and the write
\* returned TRUE
C11_Witness ==
    /\ pc = "returned"
    /\ ret = "TRUE"
    /\ args.is_volatile
    /\ args.existing_path # NoPath
    /\ out_path # args.existing_path
    /\ ~Exists(fs, args.existing_path)

\* C12 (as claimed): when the lookup by the derived id (the prior id of
\* existing_path or NM-<uuid>) finds nothing, the second lookup is made with
\* the interface name of the profile, and the write returns "netdef ID was
\* not found" only if the state holds no definition under that name either.
C12_RetryWithProfileIfname ==
    /\ (InTrace("netplan_state_get_netdef") /\ actual_netplan_id # netplan_id)
          => actual_netplan_id = NetdefIf(args.connection.ifname)
    /\ (pc = "returned" /\ error = "netplan: netdef ID was not found")
          => ~GetNetdef(netdef, NetdefIf(args.connection.ifname))

\* a non-volatile write returned TRUE
ProjectedOk == pc = "returned" /\ ret = "TRUE" /\ ~args.is_volatile

InWrite == margs.op = "write"

\* nms_keyfile_nmmeta_write has returned
WriteReturned == InWrite /\ mpc = "returned"

\* the label l is in the system calls of the sidecar call
InMetaTrace(l) == \E i \in DOMAIN mtrace : mtrace[i] = l

\* the complete record the running write is to leave at the final name
NewRecord ==
    IF margs.shadowed_storage # NoStr
    THEN KeyfileRecord(margs.uuid, StoredPath(margs), margs.shadowed_storage)
    ELSE SymlinkRecord(StoredPath(margs))

CreatedAt ==
    (IF InMetaTrace("symlink_tmp") THEN {TmpName} ELSE {})
      \cup (IF InMetaTrace("rename") \/ InMetaTrace("set_contents_final")
            THEN {FinalName} ELSE {})

\* C15 (as claimed): nms_keyfile_nmmeta_write returns 0 when it has done what
\* was asked and a negative errno otherwise, and after a failure the name in
\* *out_full_filename is a name at which this call set out to create a file,
\* so at which something of it can be left.
C15_FailureReportsArtifactName ==
    WriteReturned
      => /\ mret <= 0
         /\ (mret = 0 /\ margs.loaded_path # NoLPath)
              => Lstat(mdir, FinalName) = NewRecord
         /\ (mret = 0 /\ margs.loaded_path = NoLPath)
              => Lstat(mdir, FinalName) = NoFile
         /\ (mret < 0 /\ margs.loaded_path # NoLPath) => mout \in CreatedAt

\* C16: after a write with loaded_path NULL returned 0, the read of the
\* sidecar of that uuid returns FALSE with the outcome it has in a directory
\* that never had the sidecar, whatever was at the final name before; and the
\* write returns 0 when nothing was at the final name.
C16_DeleteThenReadNotFound ==
    (WriteReturned /\ margs.loaded_path = NoLPath)
      => /\ (mret = 0 =>
               /\ ~nms_keyfile_nmmeta_read(mdir, FinalName, testing).ret
               /\ nms_keyfile_nmmeta_read(mdir, FinalName, testing)
                    = nms_keyfile_nmmeta_read([n \in {<<"x">>} |-> mdir[n]],
                                              FinalName, testing))
         /\ (mprev = NoFile => mret = 0)

\* C16 witness: the delete returned 0 where a readable record had been
C16_Witness ==
    /\ WriteReturned
    /\ margs.loaded_path = NoLPath
    /\ mret = 0
    /\ nms_keyfile_nmmeta_read([n \in {FinalName} |-> mprev], FinalName, testing).ret

\* a call of nms_keyfile_nmmeta_read has returned
ReadReturned == margs.op = "read" /\ mpc = "returned"

\* the four string outputs of the read are not written
StringOutputsUnset ==
    /\ mres.out_uuid = UnsetName
    /\ mres.out_full_filename = UnsetLPath
    /\ mres.out_loaded_path = UnsetLPath
    /\ mres.out_shadowed_storage = UnsetStr

\* C17 (as claimed): a read that got to a regular file returns TRUE only if the uuid
\* key equals the UUID of the file name and loaded-path or shadowed-storage
\* is there; when it returns FALSE none of the outputs is written.
C17_RegularRecordNoOutputOnFailure ==
    (ReadReturned /\ mres.sys # <<>> /\ Lstat(mdir, margs.filename).type = "reg")
      => IF mres.ret
         THEN /\ mdir[margs.filename].uuid = SubSeq(margs.filename, 1, UuidLen)
              /\ (mdir[margs.filename].loaded_path # NoLPath
                    \/ mdir[margs.filename].shadowed_storage # NoStr)
         ELSE StringOutputsUnset /\ mres.out_st = UnsetStat

\* C17 (amended): the same, but of the outputs only the four strings stay
\* unwritten on FALSE; *out_st holds the lstat() result as soon as the
\* permission check has passed.
C17_RegularRecordUuidAndField ==
    (ReadReturned /\ mres.sys # <<>> /\ Lstat(mdir, margs.filename).type = "reg")
      => IF mres.ret
         THEN /\ mdir[margs.filename].uuid = SubSeq(margs.filename, 1, UuidLen)
              /\ (mdir[margs.filename].loaded_path # NoLPath
                    \/ mdir[margs.filename].shadowed_storage # NoStr)
         ELSE /\ StringOutputsUnset
              /\ mres.out_st \in {UnsetStat, mdir[margs.filename]}
              /\ (mres.out_st = UnsetStat)
                   <=> ~nms_keyfile_utils_check_file_permissions(
                           "NMMETA", margs.filename, mdir, testing).ret

\* C17 witness: a secure keyfile whose uuid key is the UUID of the file name
\* followed by one more character; the read returned FALSE, *out_st written
C17_Witness ==
    /\ ReadReturned
    /\ ~mres.ret
    /\ Lstat(mdir, margs.filename).type = "reg"
    /\ mdir[margs.filename].kf
    /\ Len(mdir[margs.filename].uuid) > UuidLen
    /\ SubSeq(mdir[margs.filename].uuid, 1, UuidLen) = SubSeq(margs.filename, 1, UuidLen)
    /\ mres.out_st = mdir[margs.filename]

\* name is a normalized UUID followed by the nmmeta suffix
UuidAndSuffix(name) ==
    /\ Len(name) = UuidLen + Len(NM_KEYFILE_PATH_SUFFIX_NMMETA)
    /\ nm_uuid_is_normalized(SubSeq(name, 1, UuidLen))
    /\ SubSeq(name, UuidLen + 1, Len(name)) = NM_KEYFILE_PATH_SUFFIX_NMMETA

\* C18 (as claimed): the read goes on to the file exactly when the name is a
\* normalized UUID and the nmmeta suffix, with or without a '~' after it;
\* for any other name it returns FALSE without a system call.
C18_NameWithOptionalTilde ==
    ReadReturned
      => (mres.sys # <<>>)
           <=> \/ UuidAndSuffix(margs.filename)
               \/ /\ margs.filename[Len(margs.filename)] = "~"
                  /\ UuidAndSuffix(SubSeq(margs.filename, 1, Len(margs.filename) - 1))

\* C18 (amended): the read goes on to the file exactly when the name is a
\* normalized UUID and the nmmeta suffix; for any other name, one with a '~'
\* after the suffix too, it returns FALSE without a system call and without
\* writing an output.
C18_NameIsUuidAndSuffix ==
    ReadReturned
      => /\ (mres.sys # <<>>) <=> UuidAndSuffix(margs.filename)
         /\ ~UuidAndSuffix(margs.filename)
              => /\ ~mres.ret
                 /\ StringOutputsUnset
                 /\ mres.out_st = UnsetStat

\* C18 witness: the read of the '~' name of a sidecar returned FALSE without
\* a system call although a symlink is at that name
C18_Witness ==
    /\ ReadReturned
    /\ margs.filename = TmpName
    /\ Lstat(mdir, TmpName).type = "lnk"
    /\ ~mres.ret
    /\ mres.sys = <<>>

\* a call of nms_keyfile_utils_check_file_permissions_stat has returned
CheckStatReturned == margs.op = "check_stat" /\ mpc = "returned"

\* C19: the check of a struct stat returns TRUE exactly when the file type is
\* allowed for the kind (regular for a keyfile; regular or symlink for a
\* sidecar) and, with the override not set, the owner is 0 or the service uid
\* and a regular file has none of the bits 0077; with the override set the
\* type is still required; with it not set a keyfile of any other owner is
\* rejected.
C19_AcceptsIffTypeOwnerMode ==
    CheckStatReturned
      => LET st == margs.st
             typeOk == IF margs.filetype = "KEYFILE" THEN st.type = "reg"
                       ELSE st.type \in {"reg", "lnk"}
             ownerOk == st.uid = 0 \/ st.uid = nm_utils_get_nm_uid
             modeOk == st.type = "reg" => (st.mode % 8 = 0 /\ (st.mode \div 8) % 8 = 0)
         IN /\ mres.ret <=> (typeOk /\ (testing \/ (ownerOk /\ modeOk)))
            /\ (testing /\ ~typeOk) => ~mres.ret
            /\ (~testing /\ margs.filetype = "KEYFILE" /\ ~ownerOk) => ~mres.ret
            /\ ~mres.ret => mres.code = "NM_SETTINGS_ERROR_INVALID_CONNECTION"

\* C19 witness: with the override set, a keyfile check of a symlink of a
\* foreign owner was rejected
C19_Witness ==
    /\ CheckStatReturned
    /\ testing
    /\ margs.filetype = "KEYFILE"
    /\ margs.st.type = "lnk"
    /\ margs.st.uid \notin {0, nm_utils_get_nm_uid}
    /\ ~mres.ret

\* the file at name is there and its owner or permission bits are refused
Insecure(st) ==
    /\ st # NoFile
    /\ ~testing
    /\ \/ st.uid \notin {0, nm_utils_get_nm_uid}
       \/ (st.type = "reg" /\ st.mode % 64 # 0)

\* C20 (as claimed): the permission check of a file that is there but
\* insecure never has the return value, error code and *out_st it has for a
\* missing file, and the sidecar read of an insecure file never has the
\* return value and outputs it has for a missing file.
C20_InsecureDiffersFromMissing ==
    /\ (margs.op = "check" /\ mpc = "returned"
          /\ Insecure(IF margs.filetype = "KEYFILE"
                      THEN Stat(mdir, margs.filename)
                      ELSE Lstat(mdir, margs.filename))
          /\ mres.msg \in {"File owner is insecure", "File permissions are insecure"})
         => LET missing == nms_keyfile_utils_check_file_permissions(
                               margs.filetype, margs.filename,
                               [n \in {<<"x">>} \ {margs.filename} |-> mdir[n]],
                               testing)
            IN <<mres.ret, mres.code, mres.out_st>>
                 # <<missing.ret, missing.code, missing.out_st>>
    /\ (ReadReturned /\ mres.sys # <<>> /\ Insecure(Lstat(mdir, margs.filename)))
         => mres # nms_keyfile_nmmeta_read([n \in {<<"x">>} |-> mdir[n]],
                                            margs.filename, testing)


C22_BlobFailureOmitsField ==
    (cpc = "returned" /\ clog # {}) =>
        /\ cret = "keyfile"
        /\ cerror = ""
        /\ DOMAIN ckf = (DOMAIN csetting) \ clog

\* the blob of the first field was not written and the second field was
\* written after it
C22_Witness ==
    /\ cpc = "returned"
    /\ clog = {CertFields[1]}
    /\ CertFields[2] \in DOMAIN ckf
    /\ cret = "keyfile"


\* ------------------------------------------------------------------ VPN properties
\* the keys func was called with, in the order of the calls
VisitedKeys == [n \in 1..Len(vvisits) |-> vvisits[n].key]

OpTable == IF vop.op \in {"add_data_item", "remove_data_item"} THEN vdata ELSE vsecrets

\* C24: after nm_setting_vpn_add_data_item or nm_setting_vpn_add_secret with
\* a NULL value the table (and the notification) is what
\* nm_setting_vpn_remove_data_item or nm_setting_vpn_remove_secret makes of the
\* table before the call; with a non-NULL value, the empty string included,
\* and a key that is a non-empty string, the key maps to the value, the other
\* keys are as before and the number of items is one more than before exactly
\* when the key was absent.
C24_AddNullIsRemove ==
    (vpc = "idle" /\ vop.op \in {"add_data_item", "add_secret"}) =>
        /\ vop.item = NoStr =>
              /\ OpTable = nm_setting_vpn_remove_item(vop.before, vop.key).t
              /\ vop.notified = nm_setting_vpn_remove_item(vop.before, vop.key).notified
        /\ (vop.item # NoStr /\ VpnKeyOk(vop.key)) =>
              /\ nm_g_hash_table_lookup(OpTable, vop.key) = vop.item
              /\ \A k \in DOMAIN vop.before : k # vop.key => OpTable[k] = vop.before[k]
              /\ nm_g_hash_table_size(OpTable) =
                    nm_g_hash_table_size(vop.before)
                    + (IF vop.key \in DOMAIN vop.before THEN 0 ELSE 1)

\* nm_setting_vpn_add_secret(key, NULL) has removed a secret
C24_Witness ==
    /\ vpc = "idle"
    /\ vop.op = "add_secret"
    /\ vop.item = NoStr
    /\ vop.key \in DOMAIN vop.before
    /\ vop.key \notin DOMAIN vsecrets


\* ------------------------------------------------------------------ traffic-control properties
\* C25: nm_setting_tc_config_add_qdisc returns TRUE exactly when no qdisc of
\* the list is equal to the argument in kind, handle, parent and attributes,
\* and then the list is the former list with a copy of the argument at the
\* end; when it returns FALSE the list is unchanged.  The same holds for
\* nm_setting_tc_config_add_tfilter, with the action in place of the
\* attributes.
C25_AddIffNoEqualElement ==
    /\ tlast.op = "add_qdisc" =>
          LET found == \E i \in 1..Len(tlast.qdiscs) :
                           /\ tlast.qdiscs[i].kind = tlast.qdisc.kind
                           /\ tlast.qdiscs[i].handle = tlast.qdisc.handle
                           /\ tlast.qdiscs[i].parent = tlast.qdisc.parent
                           /\ tlast.qdiscs[i].attributes = tlast.qdisc.attributes
          IN  /\ tlast.ret <=> ~found
              /\ tqdiscs = IF found THEN tlast.qdiscs
                           ELSE Append(tlast.qdiscs, tlast.qdisc)
    /\ tlast.op = "add_tfilter" =>
          LET ActionOf(t) == IF t.action = 0 THEN NoAction ELSE tactions[t.action]
              found == \E i \in 1..Len(tlast.tfilters) :
                           /\ tlast.tfilters[i].kind = tlast.tfilter.kind
                           /\ tlast.tfilters[i].handle = tlast.tfilter.handle
                           /\ tlast.tfilters[i].parent = tlast.tfilter.parent
                           /\ ActionOf(tlast.tfilters[i]) = ActionOf(tlast.tfilter)
          IN  /\ tlast.ret <=> ~found
              /\ ttfilters = IF found THEN tlast.tfilters
                             ELSE Append(tlast.tfilters, tlast.tfilter)

\* a qdisc was added behind another one, and a qdisc that differs from the
\* argument in its attributes only did not stop it
C25_Witness ==
    /\ tlast.op = "add_qdisc"
    /\ tlast.ret
    /\ Len(tqdiscs) = 2
    /\ tqdiscs[1].kind = tqdiscs[2].kind
    /\ tqdiscs[1].handle = tqdiscs[2].handle
    /\ tqdiscs[1].parent = tqdiscs[2].parent


\* the elements of self->tfilters with the action each of them points to
StoredTfilters ==
    [i \in 1..Len(ttfilters) |->
        [kind |-> ttfilters[i].kind, handle |-> ttfilters[i].handle,
         parent |-> ttfilters[i].parent,
         action |-> IF ttfilters[i].action = 0 THEN NoAction
                    ELSE tactions[ttfilters[i].action]]]

\* a change the caller makes to its own qdisc or tfilter, or to an action
TcCallerChange ==
    \/ TcQdiscSetHandle
    \/ TcQdiscSetAttribute
    \/ TcTfilterSetHandle
    \/ TcTfilterSetAction
    \/ TcActionSetAttribute

\* C26: a change the caller makes to its own qdisc or tfilter, or to the
\* attributes of an action, leaves every element stored in the setting as it
\* was: kind, handle, parent, attributes, and kind and attributes of the
\* action of a stored tfilter.
C26_CallerChangeLeavesStored ==
    [][TcCallerChange => (tqdiscs' = tqdiscs /\ StoredTfilters' = StoredTfilters)]_vars


\* ------------------------------------------------------------------ writer properties, continued
\* the errors of the steps before the projection
EarlyErrors ==
    { "serialize", "could not find suitable keyfile file name",
      "keyfile writer produces an invalid connection",
      "error writing to file", "error chowning" }

\* C27: when the write returns FALSE from a step before the projection and
\* existing_path was given, the file at existing_path exists and holds what
\* it held when the write was called, also when the selected path is
\* existing_path.
C27_EarlyFailureKeepsExisting ==
    (pc = "returned" /\ ret = "FALSE" /\ error \in EarlyErrors
        /\ args.existing_path # NoPath)
    => /\ Exists(fs, args.existing_path)
       /\ fs[args.existing_path] = Content(args.connection.uuid, 0)


\* C28: when the write returns TRUE and out_path was asked for, a file exists
\* at out_path, for a volatile and for a non-volatile profile, with and
\* without existing_path, with and without a re-read.
C28_OutPathExists ==
    (pc = "returned" /\ ret = "TRUE" /\ args.want_path)
    => Exists(fs, out_path)

\* C28 for a volatile profile only
C28_VolatileOutPathExists ==
    (pc = "returned" /\ ret = "TRUE" /\ args.want_path /\ args.is_volatile)
    => Exists(fs, out_path)


\* the steps of the write itself: every step of a call but netplan_generate,
\* which is the work of another program
OwnStep == pc \notin {"idle", "returned", "generate"}

\* C29: when existing_path_read_only is set, no step of the write (path
\* selection, content write, removal of the old path, copy of the
\* projection, removal of the plain file) deletes or overwrites the file at
\* existing_path.
C29_ReadOnlyExistingUntouched ==
    [][(OwnStep /\ args.existing_path # NoPath /\ args.existing_path_read_only
           /\ Exists(fs, args.existing_path))
       => (/\ Exists(fs', args.existing_path)
           /\ fs'[args.existing_path] = fs[args.existing_path])]_vars


\* ------------------------------------------------------------------ sidecar properties, continued
\* nms_keyfile_nmmeta_write returned 0 for a non-NULL loaded_path
WroteLoadedPath ==
    /\ mpc = "returned"
    /\ margs.op = "write"
    /\ mret = 0
    /\ margs.loaded_path # NoLPath

\* C30: after nms_keyfile_nmmeta_write succeeded with a non-NULL loaded_path,
\* nms_keyfile_nmmeta_read of the sidecar of that uuid returns TRUE with the
\* uuid, the shadowed_storage written (none when none was written) and the
\* absolute loaded_path given to the write, for the symlink and for the
\* key-value form, also when the path was stored relative.
C30_ReadReturnsWhatWasWritten ==
    WroteLoadedPath
    => LET r == nms_keyfile_nmmeta_read(mdir, FinalName, testing) IN
       /\ r.ret
       /\ r.out_uuid = margs.uuid
       /\ r.out_shadowed_storage = margs.shadowed_storage
       /\ r.out_loaded_path = margs.loaded_path

\* C30 for the symlink form only
C30_SymlinkReadReturnsWhatWasWritten ==
    (WroteLoadedPath /\ margs.shadowed_storage = NoStr)
    => LET r == nms_keyfile_nmmeta_read(mdir, FinalName, testing) IN
       /\ r.ret
       /\ r.out_uuid = margs.uuid
       /\ r.out_shadowed_storage = NoStr
       /\ r.out_loaded_path = margs.loaded_path


\* C31: when nms_keyfile_nmmeta_write returns, with 0 or with an error, no
\* file is at the temporary ("~") name, whatever was there before the call;
\* a directory at that name, which unlink() cannot remove, is left out.
C31_NoTmpFileAfterWrite ==
    (mpc = "returned" /\ margs.op = "write"
        /\ Lstat(mdir, TmpName).type # "dir")
    => Lstat(mdir, TmpName) = NoFile

\* C31 witness: the symlink was made at the temporary name, rename() failed,
\* and the write returned the error
C31_Witness ==
    /\ mpc = "returned"
    /\ margs.op = "write"
    /\ mret # 0
    /\ mtrace = <<"unlink_tmp", "symlink_tmp", "rename", "unlink_tmp">>
    /\ Lstat(mdir, TmpName) = NoFile


\* ------------------------------------------------------------------ fixup properties, continued
\* C32: when _fix_netplan_interface_name returns, TRUE or FALSE, the process
\* umask is the umask of the moment of the call.
C32_UmaskRestored ==
    fpc = "returned" => umask = fbefore.umask

\* C32 for the passes that return TRUE
C32_UmaskRestoredOnSuccess ==
    (fpc = "returned" /\ fret = "TRUE") => umask = fbefore.umask


\* the file declares a connection.interface-name that starts with "NM-" and
\* has more than 15 characters
DeclaresLongNMName(c) ==
    /\ c.loadable
    /\ c.has_iface
    /\ Len(c.iface) > 15
    /\ SubSeq(c.iface, 1, 3) = <<"N", "M", "-">>

\* C33: after a pass that returned TRUE no *.nmconnection file of the
\* run-time directory declares an interface-name that starts with "NM-" and
\* is longer than 15 characters, and every file whose interface-name is
\* absent or is not of that kind is what it was before the pass.
C33_PassStripsOnlyGeneratedNames ==
    (fpc = "returned" /\ fret = "TRUE")
    => /\ DOMAIN rundir = DOMAIN fbefore.dir
       /\ \A n \in DOMAIN rundir :
            /\ GlobMatches(n) => ~DeclaresLongNMName(rundir[n])
            /\ ~DeclaresLongNMName(fbefore.dir[n]) => rundir[n] = fbefore.dir[n]

\* C33 witness: a pass returned TRUE after rewriting one file and passing
\* over a file whose interface-name is "NM-" plus 12 characters
C33_Witness ==
    /\ fpc = "returned"
    /\ fret = "TRUE"
    /\ fsaved # {}
    /\ \E n \in DOMAIN rundir :
         /\ GlobMatches(n)
         /\ n \notin fsaved
         /\ rundir[n].has_iface
         /\ Len(rundir[n].iface) = 15
         /\ rundir[n].text = "generated"


\* ------------------------------------------------------------------ certificate properties, continued
\* r is what is left of cpath after keyfile_dir and the slashes that follow
\* it (at least one)
IsRemainder(cpath, r) ==
    \E k \in (Len(CertDir) + 1)..Len(cpath) :
        /\ SubSeq(cpath, 1, Len(CertDir)) = CertDir
        /\ \A j \in (Len(CertDir) + 1)..k : cpath[j] = "/"
        /\ k = Len(cpath) \/ cpath[k + 1] # "/"
        /\ r = SubSeq(cpath, k + 1, Len(cpath))

\* the certificate fields of scheme PATH
PathFields == {f \in DOMAIN csetting : csetting[f].scheme = "PATH"}

\* C34: for a certificate of scheme PATH the serializer writes the remainder
\* after keyfile_dir when the path lies under keyfile_dir, the remainder is
\* not empty and the reader's detection accepts it; else the path as it is
\* when the detection accepts it; else "file://" and the path.  What is
\* written without "file://" is accepted by the reader's detection.
C34_PathWrittenAsReaderAccepts ==
    (cpc = "returned" /\ cret = "keyfile")
    => \A f \in PathFields :
         /\ f \in DOMAIN ckf
         /\ LET cpath == csetting[f].str
                w == ckf[f]
                qualified == NM_KEYFILE_CERT_SCHEME_PREFIX_PATH \o cpath
                rems == {r \in {SubSeq(cpath, k, Len(cpath)) : k \in 1..(Len(cpath) + 1)} :
                           /\ IsRemainder(cpath, r)
                           /\ r # <<>>
                           /\ nm_keyfile_detect_unqualified_path_scheme(r)}
            IN  /\ IF rems # {} THEN w \in rems
                   ELSE IF nm_keyfile_detect_unqualified_path_scheme(cpath) THEN w = cpath
                   ELSE w = qualified
                /\ w # qualified => nm_keyfile_detect_unqualified_path_scheme(w)

\* C34 witness: one field held a path under keyfile_dir whose remainder
\* ("1;2") the detection rejects, the other a path with a doubled slash
\* after keyfile_dir that was written relative
C34_Witness ==
    /\ cpc = "returned"
    /\ cret = "keyfile"
    /\ \E f \in PathFields :
         /\ IsRemainder(csetting[f].str, <<"1", ";", "2">>)
         /\ ckf[f] = csetting[f].str
    /\ \E f \in PathFields :
         /\ csetting[f].str = <<"/", "k", "/", "/", "c", ".", "p", "e", "m">>
         /\ ckf[f] = <<"c", ".", "p", "e", "m">>


\* the certificate fields of scheme BLOB whose file was written
WrittenBlobFields ==
    {f \in DOMAIN csetting : csetting[f].scheme = "BLOB" /\ f \notin clog}

\* <uuid>-<field suffix>.<ext>
BlobFileName(f, ext) == Uuid1 \o <<"-">> \o f \o <<".">> \o ext

\* the blob starts with the bytes 0x30 0x82
StartsWithDerMagic(blob) == Len(blob) >= 2 /\ blob[1] = 48 /\ blob[2] = 130

\* the field is written as the base name BlobFileName(f, ext) and the file
\* <keyfile_dir>/<that name> holds the blob
BlobWrittenAs(f, ext) ==
    /\ f \in DOMAIN ckf
    /\ ckf[f] = BlobFileName(f, ext)
    /\ (CertDir \o <<"/">> \o BlobFileName(f, ext)) \in DOMAIN cfiles
    /\ cfiles[CertDir \o <<"/">> \o BlobFileName(f, ext)] = csetting[f].blob

\* C35 (as claimed): the file of a blob is <keyfile_dir>/<uuid>-<field
\* suffix>.<ext> with ext "p12" when the field has a format hint and it is
\* PKCS12, "der" when the blob starts with 0x30 0x82, "pem" otherwise, and
\* the field is written as the base name of that file.
C35_ExtByHintOrMagic ==
    (cpc = "returned" /\ cret = "keyfile")
    => \A f \in WrittenBlobFields :
         BlobWrittenAs(f, IF HasFormatFunc(f) /\ csetting[f].format = "PKCS12"
                          THEN <<"p", "1", "2">>
                          ELSE IF StartsWithDerMagic(csetting[f].blob)
                          THEN <<"d", "e", "r">>
                          ELSE <<"p", "e", "m">>)

\* C35 (amended): ext is "p12" when the field has a format hint and it is
\* PKCS12, "der" when the field has no format hint and the blob has more
\* than two bytes and starts with 0x30 0x82, "pem" otherwise.
C35_ExtByHintElseMagic ==
    (cpc = "returned" /\ cret = "keyfile")
    => \A f \in WrittenBlobFields :
         BlobWrittenAs(f, IF HasFormatFunc(f)
                          THEN (IF csetting[f].format = "PKCS12"
                                THEN <<"p", "1", "2">> ELSE <<"p", "e", "m">>)
                          ELSE IF Len(csetting[f].blob) > 2
                                  /\ StartsWithDerMagic(csetting[f].blob)
                          THEN <<"d", "e", "r">>
                          ELSE <<"p", "e", "m">>)

\* C35 witness: a private key of DER bytes without the PKCS12 hint was
\* written as .pem and a CA certificate of DER bytes as .der
C35_Witness ==
    /\ cpc = "returned"
    /\ cret = "keyfile"
    /\ \E f \in WrittenBlobFields :
         /\ HasFormatFunc(f)
         /\ csetting[f].format = "RAW"
         /\ csetting[f].blob = <<48, 130, 1>>
         /\ ckf[f] = BlobFileName(f, <<"p", "e", "m">>)
    /\ \E f \in WrittenBlobFields :
         /\ ~HasFormatFunc(f)
         /\ ckf[f] = BlobFileName(f, <<"d", "e", "r">>)


\* ------------------------------------------------------------------ VPN secrets properties
\* update_one_secret was called with the a{ss} value for "secrets"
DictUpdated ==
    /\ vop.op = "update_one_secret"
    /\ vop.key = NM_SETTING_VPN_SECRETS
    /\ vop.value.type = "a{ss}"

\* C36: an update of the secrets from a dictionary with an empty name returns
\* ERROR and leaves the secrets as they were; without an empty name it
\* returns SUCCESS_MODIFIED when some entry did not already have the value
\* given, and then the property is notified, and SUCCESS_UNCHANGED without
\* notification and without change when every entry already had it.
C36_DictValidatedBeforeChange ==
    DictUpdated
    => LET es == vop.value.entries
           differs(j) == nm_g_hash_table_lookup(vop.before, es[j][1]) # es[j][2]
       IN  IF \E j \in 1..Len(es) : es[j][1] = ""
           THEN /\ vop.ret = "ERROR"
                /\ vsecrets = vop.before
                /\ ~vop.notified
           ELSE /\ vop.ret = (IF \E j \in 1..Len(es) : differs(j)
                              THEN "SUCCESS_MODIFIED" ELSE "SUCCESS_UNCHANGED")
                /\ vop.notified = (vop.ret = "SUCCESS_MODIFIED")
                /\ vop.ret = "SUCCESS_UNCHANGED" => vsecrets = vop.before
                /\ (\A j, k \in 1..Len(es) : es[j][1] = es[k][1] => j = k)
                   => /\ (vop.ret = "SUCCESS_MODIFIED") = (vsecrets # vop.before)
                      /\ \A j \in 1..Len(es) : vsecrets[es[j][1]] = es[j][2]

\* C36 witness: the first entry would have changed the secret "a", the
\* second has an empty name, and the update returned ERROR
C36_Witness ==
    /\ DictUpdated
    /\ vop.ret = "ERROR"
    /\ Len(vop.value.entries) = 2
    /\ vop.value.entries[1][1] = "a"
    /\ nm_g_hash_table_lookup(vop.before, "a") # vop.value.entries[1][2]
    /\ vop.value.entries[2][1] = ""


\* set_secret_flags returned TRUE for a valid flag set
FlagsSet ==
    /\ vop.op = "set_secret_flags"
    /\ vop.ret
    /\ vop.flags \in 0..7

\* C37: after set_secret_flags(name, f) returned TRUE for a valid f,
\* get_secret_flags(name) returns TRUE and f, with or without a secret of
\* that name.  Without an item "<name>-flags" get_secret_flags returns TRUE,
\* and NONE, exactly when there is a secret of that name; an item that is
\* no numeral of a valid flag set reads as NONE with TRUE.
C37_SecretFlagsRoundTrip ==
    /\ FlagsSet
       => /\ vop.key # ""
          /\ get_secret_flags(vdata, vsecrets, vop.key) = [ret |-> TRUE, out_flags |-> vop.flags]
    /\ vop.op = "get_secret_flags" /\ vop.key # ""
       => IF (vop.key \o "-flags") \notin DOMAIN vdata
          THEN /\ vop.ret = (vop.key \in DOMAIN vsecrets)
               /\ vop.ret => vop.out_flags = 0
          ELSE /\ vop.ret
               /\ vdata[vop.key \o "-flags"] \notin {"0", "1", "2", "3", "4", "5", "6", "7"}
                  => vop.out_flags = 0

\* C37 witness: the flags 7 were set for a name that has no secret
C37_Witness ==
    /\ FlagsSet
    /\ vop.flags = 7
    /\ vop.key \notin DOMAIN vsecrets
    /\ vop.before # <<>>


\* C38: clear_secrets returns TRUE and notifies the property exactly when it
\* removed a secret; when func rejects every secret, or there is no secret,
\* it returns FALSE and the secrets are as they were.
C38_ClearReportsRemoval ==
    vop.op = "clear_secrets"
    => /\ vop.ret = (vsecrets # vop.before)
       /\ vop.notified = vop.ret

\* C38: what clear_secrets removes is what func accepts, whatever it returns
C38_ClearRemovesAccepted ==
    vop.op = "clear_secrets"
    => /\ DOMAIN vsecrets = (DOMAIN vop.before) \ vop.accepted
       /\ \A k \in DOMAIN vsecrets : vsecrets[k] = vop.before[k]


\* no two elements of the qdisc list are equal, nor two of the tfilter list
NoDuplicates ==
    /\ \A i, j \in 1..Len(tqdiscs) :
         nm_tc_qdisc_equal(tqdiscs[i], tqdiscs[j]) => i = j
    /\ \A i, j \in 1..Len(ttfilters) :
         nm_tc_tfilter_equal(tactions, ttfilters[i], ttfilters[j]) => i = j

\* the step is one of add, remove, remove_by_value and clear of the setting
SettingCall == tlast' # NoTcCall

=============================================================================
